---- MODULE Spec2Model ----
(***************************************************************************)
(* kvapi: the in-memory key-value store of main.go (KeyValueStore) and the *)
(* goroutines that call Get, Set and GetStatus on it concurrently.         *)
(*                                                                         *)
(* A Go string is modelled by its identity and its byte length,            *)
(* [id |-> i, len |-> n]: the store only ever compares strings for         *)
(* equality (map lookup) and takes len([]byte(s)).                         *)
(*                                                                         *)
(* Spec is the store under concurrent calls. ServerSpec is the server of   *)
(* main: the AccessControl built from the flags, and the HTTP handlers or  *)
(* the UDP loop serving one request at a time on the store. There the id   *)
(* of a string is its sequence of characters.                              *)
(***************************************************************************)
EXTENDS Integers, FiniteSets, Sequences, Bags, TLC

\* main.go:23-27
MaxKeySize == 255
MaxValueSize == 1048576
MaxKeyCount == 100

\* Bounds of the model: the goroutines calling the store, and the keys that
\* callers Set on top of the keys already loaded.
NumProcs == 2
NumFree == 2
\* The bits of an IP address.
AddrBits == 1

\* Bounds of the model of the UDP loop: the datagrams that arrive, and the
\* errors of ReadFromUDP and WriteToUDP.
MaxDatagrams == 3
MaxErrs == 1

\* main.go:673, the buffer of startUDPServer
BufferSize == 8192

Procs == 1..NumProcs
None == 0

Str(i, n) == [id |-> i, len |-> n]
\* The empty string "", Go's zero value of string.
Empty == Str(0, 0)
\* What a read that overlaps a map write may produce (a data race).
Torn == Str(-1, 0)
\* In the histories: no such Set of the key yet.
Never == Str(-2, 0)

\* len([]byte(s))
ByteLen(s) == s.len

----------------------------------------------------------------------------
\* The strings callers pass.

\* Keys loaded before the run starts ("k1" .. "k99"), each with value "hello".
LoadedKey(i) == Str(i, 2)
LoadedValue == Str(1, 5)
\* Keys set during the run: the first is a key of exactly MaxKeySize bytes.
FreeKey(j) == Str(MaxKeyCount + j, IF j = 1 THEN MaxKeySize ELSE 1)
FreeKeys == {FreeKey(j) : j \in 1..NumFree}
\* A key one byte too long.
LongKey == Str(MaxKeyCount + NumFree + 1, MaxKeySize + 1)
\* A value of exactly MaxValueSize bytes, and one a byte too long.
MaxValue == Str(2, MaxValueSize)
LongValue == Str(3, MaxValueSize + 1)

SetKeys == FreeKeys \cup {LongKey}
SetValues == {LoadedValue, MaxValue, LongValue}
GetKeys == FreeKeys

\* error values: nil and the three fmt.Errorf texts of Set
Nil == "nil"
ErrKeySize == "key exceeds maximum size of 255 bytes"
ErrValueSize == "value exceeds maximum size of 1048576 bytes"
ErrKeyCount == "maximum number of keys (100) reached"

----------------------------------------------------------------------------
VARIABLES
    store,    \* kvs.store: map[string]string, a function on the keys present
    mu,       \* kvs.mu: sync.RWMutex
    pc,       \* each goroutine's position in Get / Set / GetStatus
    call,     \* each goroutine's call in progress and its arguments
    loc,      \* each goroutine's locals: exists, len(kvs.store) read, totalSize
    ret,      \* the call that returned in the last step, with what it returned
    lastSet,  \* history: per key, the value of the last Set call that passed the size checks and returned
    lastOk,   \* history: per key, the value of the last Set call that returned nil
    ac,       \* the AccessControl that main builds from the flags
    udpMode,  \* the -udp flag: the transport that main starts
    req,      \* the request or datagram that the server handled in the last step
    out,      \* what the server did for it: the bytes sent, the connection
    arrivals,    \* the datagrams that have reached the socket, in arrival order
    nread,       \* how many of them ReadFromUDP has returned
    upc,         \* the position of the loop of startUDPServer
    buffer,      \* buffer[:n] after ReadFromUDP
    clientAddr,  \* the clientAddr of the loop
    response,    \* the response of the loop
    done,        \* history: the calls of WriteToUDP, in the order they were made
    errs         \* history: the number of errors of ReadFromUDP and WriteToUDP

\* The variables of the loop of startUDPServer, main.go:673-693.
listener == <<arrivals, nread, upc, buffer, clientAddr, response, done, errs>>

\* The server's variables: the store's methods leave them alone.
srv == <<ac, udpMode, req, out, listener>>

\* The variables of the goroutines inside the store's methods.
goroutines == <<mu, pc, call, loc, ret, lastSet>>

vars == <<store, mu, pc, call, loc, ret, lastSet, lastOk, ac, udpMode, req, out,
          listener>>

NoCall == [op |-> "none", key |-> Empty, value |-> Empty]
NoLoc == [exists |-> FALSE, n |-> 0, totalSize |-> 0]
\* No call returned in the last step.
NoRet == [op |-> "none", key |-> Empty, value |-> Empty,
          exists |-> FALSE, n |-> 0,
          err |-> Nil, rvalue |-> Empty, found |-> FALSE, KeyCount |-> 0, MemoryUsage |-> 0]
\* The return from call c, whose locals were l.
Return(c, l) ==
    [NoRet EXCEPT !.op = c.op, !.key = c.key, !.value = c.value,
                  !.exists = l.exists, !.n = l.n]

\* A store holding the first n loaded keys.
Loaded(n) == [k \in {LoadedKey(i) : i \in 1..n} |-> LoadedValue]

----------------------------------------------------------------------------
\* sync.RWMutex: the goroutine holding it for writing (None: nobody) and the
\* goroutines holding it for reading. A call of Lock or RLock that has to
\* wait is a call that has not happened yet.

CanLockNone(m) == TRUE
CanLockIgnoreReaders(m) == m.writer = None
CanLock(m) == m.writer = None /\ m.readers = {}

CanRLockAny(m) == TRUE
CanRLock(m) == m.writer = None

Lock(m, p) == [m EXCEPT !.writer = p]
Unlock(m, p) == [m EXCEPT !.writer = IF @ = p THEN None ELSE @]
RLock(m, p) == [m EXCEPT !.readers = @ \cup {p}]
RUnlock(m, p) == [m EXCEPT !.readers = @ \ {p}]

----------------------------------------------------------------------------
\* The pure parts of Set, Get and GetStatus.

\* The size checks with the value checked ahead of the key.
SizeCheckValueFirst(key, value) ==
    IF ByteLen(value) > MaxValueSize THEN ErrValueSize
    ELSE IF ByteLen(key) > MaxKeySize THEN ErrKeySize
    ELSE Nil
SizeCheckInclusive(key, value) ==
    IF ByteLen(key) >= MaxKeySize THEN ErrKeySize
    ELSE IF ByteLen(value) >= MaxValueSize THEN ErrValueSize
    ELSE Nil
\* main.go:82-89
SizeCheck(key, value) ==
    IF ByteLen(key) > MaxKeySize THEN ErrKeySize
    ELSE IF ByteLen(value) > MaxValueSize THEN ErrValueSize
    ELSE Nil

CountCheckOffByOne(m, key) ==
    IF ~(key \in DOMAIN m) /\ Cardinality(DOMAIN m) > MaxKeyCount THEN ErrKeyCount ELSE Nil
CountCheckAnyKey(m, key) ==
    IF Cardinality(DOMAIN m) >= MaxKeyCount THEN ErrKeyCount ELSE Nil
\* main.go:95-98
CountCheck(m, key) ==
    IF ~(key \in DOMAIN m) /\ Cardinality(DOMAIN m) >= MaxKeyCount THEN ErrKeyCount ELSE Nil

\* The map write making room for a new key by removing another key.
MapAssignEvicts(m, key, value) ==
    LET keep == IF key \in DOMAIN m \/ DOMAIN m = {} THEN DOMAIN m
                ELSE DOMAIN m \ {CHOOSE k \in DOMAIN m : TRUE}
    IN [k \in keep \cup {key} |-> IF k = key THEN value ELSE m[k]]
MapAssignDropsExisting(m, key, value) ==
    IF key \in DOMAIN m THEN [k \in DOMAIN m \ {key} |-> m[k]]
    ELSE [k \in DOMAIN m \cup {key} |-> IF k = key THEN value ELSE m[k]]
MapAssignIfAbsent(m, key, value) ==
    [k \in DOMAIN m \cup {key} |-> IF k \in DOMAIN m THEN m[k] ELSE value]
\* main.go:100, kvs.store[key] = value
MapAssign(m, key, value) ==
    [k \in DOMAIN m \cup {key} |-> IF k = key THEN value ELSE m[k]]

MapGetFound(m, key) ==
    [value |-> IF key \in DOMAIN m THEN m[key] ELSE Empty, found |-> TRUE]
\* main.go:74, value, exists := kvs.store[key]
MapGet(m, key) ==
    IF key \in DOMAIN m THEN [value |-> m[key], found |-> TRUE]
    ELSE [value |-> Empty, found |-> FALSE]

\* The loop of GetStatus with the key lengths left out.
SumValueSizes(m, keys) ==
    BagCardinality([k \in keys |-> ByteLen(m[k]) + 1]) - Cardinality(keys)

\* main.go:109-112, the loop that adds len(k) + len(v) of every entry. The sum
\* is the size of a bag of the keys; a bag holds no element zero times, so
\* each key is in it once more than its entry is long, and the number of keys
\* is taken off.
SumSizes(m, keys) ==
    BagCardinality([k \in keys |-> ByteLen(k) + ByteLen(m[k]) + 1])
      - Cardinality(keys)

\* main.go:115, len(kvs.store)
KeyCount(m) == Cardinality(DOMAIN m)

\* A goroutine about to execute, or executing, the map write of Set.
Writing(p) == pc[p] = "write"

----------------------------------------------------------------------------
\* The strings of requests and responses. A string is the record Str(id, len)
\* whose id is its sequence of characters.
Text(chars) == Str(chars, Len(chars))
\* ""
EmptyText == Text(<<>>)

\* a + b
Concat(a, b) == Str(a.id \o b.id, a.len + b.len)

\* The white space characters of the datagrams.
Space == Text(<<" ">>)
Tab == Text(<<"\t">>)
\* unicode.IsSpace
IsSpace(w) == w \in {Space, Tab}

\* A datagram's text is a sequence of white space characters and words, a word
\* being a maximal run of other characters.
RECURSIVE TrimLeft(_)
TrimLeft(t) ==
    IF t # <<>> /\ IsSpace(Head(t)) THEN TrimLeft(Tail(t)) ELSE t

RECURSIVE TrimRight(_)
TrimRight(t) ==
    IF t # <<>> /\ IsSpace(t[Len(t)])
    THEN TrimRight(SubSeq(t, 1, Len(t) - 1))
    ELSE t

\* strings.TrimSpace, main.go:683
TrimSpace(t) == TrimRight(TrimLeft(t))

RECURSIVE Fields(_)
\* strings.Fields, main.go:516: the words, the white space around them dropped
Fields(t) ==
    IF t = <<>> THEN <<>>
    ELSE IF IsSpace(Head(t)) THEN Fields(Tail(t))
         ELSE <<Head(t)>> \o Fields(Tail(t))

RECURSIVE Join(_, _)
\* strings.Join, main.go:620
Join(parts, sep) ==
    IF parts = <<>> THEN EmptyText
    ELSE IF Len(parts) = 1 THEN parts[1]
         ELSE Concat(parts[1], Concat(sep, Join(Tail(parts), sep)))

\* The upper case of the lower case letters.
UpperOf ==
    [c \in {"a", "b", "e", "f", "g", "i", "n", "o", "p", "s", "t", "u"} |->
       CASE c = "a" -> "A" [] c = "b" -> "B" [] c = "e" -> "E"
         [] c = "f" -> "F" [] c = "g" -> "G" [] c = "i" -> "I"
         [] c = "n" -> "N" [] c = "o" -> "O" [] c = "p" -> "P"
         [] c = "s" -> "S" [] c = "t" -> "T" [] c = "u" -> "U"]

\* strings.ToUpper leaving every letter as it is.
ToUpperSame(w) == w

\* strings.ToUpper, main.go:528
ToUpper(w) ==
    Str([i \in 1..Len(w.id) |->
           IF w.id[i] \in DOMAIN UpperOf THEN UpperOf[w.id[i]] ELSE w.id[i]],
        w.len)

\* The verbs of handleUDPCommand, main.go:532, 544, 557, 595
VerbPing == Text(<<"P", "I", "N", "G">>)
VerbStatus == Text(<<"S", "T", "A", "T", "U", "S">>)
VerbGet == Text(<<"G", "E", "T">>)
VerbSet == Text(<<"S", "E", "T">>)

----------------------------------------------------------------------------
\* Addresses. An IP address is a family (4 or 6) and AddrBits bits.
Addrs == 0..(2^AddrBits - 1)
IPOf(fam, bits) == [fam |-> fam, bits |-> bits]
\* the nil net.IP
NilIP == IPOf(0, 0)

\* The remote address of a connection or a datagram: its IP and, for a
\* link-local IPv6 address, the zone of the interface it came in on.
RemoteAddrs ==
    {[ip |-> IPOf(4, b), zone |-> FALSE] : b \in Addrs}
      \cup {[ip |-> IPOf(6, b), zone |-> z] : b \in Addrs, z \in BOOLEAN}

\* net.TCPAddr.String and net.UDPAddr.String: "1.2.3.4:80", "[::1]:80",
\* "[fe80::1%eth0]:80". The text is kept as its parts.
AddrString(a) == [host |-> a.ip, zone |-> a.zone, brackets |-> a.ip.fam = 6]

\* A host text that is no IP address, such as "[" or "[fe80".
NoHost == [ip |-> NilIP, zone |-> FALSE, valid |-> FALSE]

\* net.SplitHostPort, main.go:123: the host without its brackets and port
SplitHostPort(s) == [ip |-> s.host, zone |-> s.zone, valid |-> TRUE]

\* strings.Split(addr.String(), ":")[0], main.go:482: the text before the
\* first colon, which for an IPv6 address starts with the bracket
SplitColonFirst(s) ==
    IF s.brackets THEN NoHost
    ELSE [ip |-> s.host, zone |-> s.zone, valid |-> TRUE]

\* net.ParseIP, main.go:128, 483: nil for a text that is no IP address, and
\* for an address with a zone
ParseIP(h) == IF h.valid /\ ~h.zone THEN h.ip ELSE NilIP

\* getIPFromRequest, main.go:121-134
GetIPFromRequest(r) ==
    LET ip == ParseIP(SplitHostPort(AddrString(r.addr)))
    IN [ip |-> ip, err |-> ip = NilIP]

\* The IP that handleUDPCommand takes from the datagram's address,
\* main.go:482-483
UDPSourceIP(addr) == ParseIP(SplitColonFirst(AddrString(addr)))

\* The first ones bits of an address, the others cleared.
Masked(bits, ones) ==
    (bits \div (2^(AddrBits - ones))) * (2^(AddrBits - ones))

\* The nil *net.IPNet
NoCIDR == [fam |-> 0, base |-> 0, ones |-> 0]
\* net.ParseCIDR of a valid range, main.go:305: the network, host bits cleared
ParseCIDR(c) == [fam |-> c.fam, base |-> Masked(c.bits, c.ones), ones |-> c.ones]

\* net.IPNet.Contains, main.go:184, 486: false for the nil IP and for an
\* address of the other family
Contains(n, ip) ==
    /\ ip # NilIP
    /\ ip.fam = n.fam
    /\ Masked(ip.bits, n.ones) = n.base

\* The -allowed-cidr values: none, or a range of either family.
NoCIDRFlag == [fam |-> 0, bits |-> 0, ones |-> 0]
CIDRFlags ==
    {NoCIDRFlag}
      \cup {[fam |-> f, bits |-> b, ones |-> n] :
              f \in {4, 6}, b \in Addrs, n \in 0..AddrBits}

\* The flags of main, main.go:253-262
Flags ==
    [allowedCIDR : CIDRFlags, fwDrop : BOOLEAN, fwReject : BOOLEAN,
     simulateFirewall : BOOLEAN, udp : BOOLEAN]

\* main.go:283-329: the AccessControl built from the flags
NewAccessControl(f) ==
    IF f.allowedCIDR # NoCIDRFlag
    THEN [AllowedCIDR |-> ParseCIDR(f.allowedCIDR),
          FirewallMode |-> IF f.fwDrop \/ f.simulateFirewall THEN "DROP"
                           ELSE IF f.fwReject THEN "REJECT"
                           ELSE "ACCEPT"]
    ELSE [AllowedCIDR |-> NoCIDR, FirewallMode |-> "ACCEPT"]

\* A nil check that never finds the range nil.
NeverUnrestricted(a) == FALSE
\* ac.AllowedCIDR == nil, main.go:169, 486
Unrestricted(a) == a.AllowedCIDR = NoCIDR

----------------------------------------------------------------------------
\* Responses.

\* A message: the format and the string put in its place of the argument.
Msg(format, arg) == [format |-> format, arg |-> arg]
Fixed(format) == Msg(format, EmptyText)

MsgAccessDenied == Fixed("Access denied: Your IP is not in the allowed range")
MsgRejected ==
    Fixed("Connection rejected by firewall: Your IP is not in the allowed range")
MsgParseIP == Fixed("Failed to parse client IP")
MsgMethod == Fixed("Method not allowed")
MsgPong == Fixed("PONG")
MsgStatus == Fixed("Status retrieved successfully")
MsgMissingKey == Fixed("Missing key parameter")
MsgMissingValue == Fixed("Missing value parameter")
MsgRetrieved == Fixed("Key retrieved successfully")
MsgSetOk == Fixed("Key set successfully")
MsgEmpty == Fixed("Empty command")
MsgKeyNotFound(key) == Msg("Key '%s' not found", key)
MsgRoute(path) == Msg("Route '%s' not found", path)
MsgUnknown(action) == Msg("Unknown command: %s", action)

\* The "ping", "status" and "PONG" of the responses.
KeyPing == Text(<<"p", "i", "n", "g">>)
KeyStatus == Text(<<"s", "t", "a", "t", "u", "s">>)
ValuePong == Text(<<"P", "O", "N", "G">>)

\* No data: the nil interface.
NoData == [present |-> FALSE, KeyCount |-> 0, MemoryUsage |-> 0]
\* The data of a status response with the bytes left at zero.
StatusDataCountOnly(m) ==
    [present |-> TRUE, KeyCount |-> KeyCount(m), MemoryUsage |-> 0]

\* kvs.GetStatus() as the data of a response, main.go:376, 545
StatusData(m) ==
    [present |-> TRUE, KeyCount |-> KeyCount(m),
     MemoryUsage |-> SumSizes(m, DOMAIN m)]

\* APIResponse, main.go:54-61. The key, value and data fields are omitempty:
\* an empty one is absent from the JSON text.
APIResponse(status, message, key, value, data) ==
    [status |-> status, message |-> message, key |-> key, value |-> value,
     data |-> data]

\* No bytes: the nil slice that handleUDPCommand returns for a dropped
\* datagram, and what an HTTP client gets on a closed connection.
NoBytes == APIResponse(0, Fixed(""), EmptyText, EmptyText, NoData)

\* sendJSONResponse with the key and value kept on every status.
SendJSONResponseAnyStatus(status, message, key, value, data) ==
    APIResponse(status, message, key, IF key # EmptyText THEN value ELSE EmptyText,
                data)

\* sendJSONResponse, main.go:220-250: key and value only on a 200 with a key
SendJSONResponse(status, message, key, value, data) ==
    APIResponse(status, message,
                IF status = 200 /\ key # EmptyText THEN key ELSE EmptyText,
                IF status = 200 /\ key # EmptyText THEN value ELSE EmptyText,
                data)

\* The message of an error of Set: err.Error()
ErrorMsg(err) == Fixed(err)

\* kvs.Set(key, value), main.go:80-102, as one step
KVSet(m, key, value) ==
    LET sizeErr == SizeCheck(key, value)
        countErr == CountCheck(m, key)
    IN IF sizeErr # Nil THEN [err |-> sizeErr, store |-> m]
       ELSE IF countErr # Nil THEN [err |-> countErr, store |-> m]
       ELSE [err |-> Nil, store |-> MapAssign(m, key, value)]

----------------------------------------------------------------------------
\* The requests.

KeyA == Text(<<"a">>)
KeyB == Text(<<"b">>)
ValueX == Text(<<"x">>)
WordY == Text(<<"y">>)
\* "x y"
ValueXY == Join(<<ValueX, WordY>>, Space)
ValueHello == Text(<<"h", "e", "l", "l", "o">>)

\* Strings too long to write out: one byte more than the key and value limits
\* allow, and a word as long as the buffer of startUDPServer. The id stands
\* for the characters; a cut of such a string keeps the id and has its own len.
LongKeyText == Str(<<"K">>, MaxKeySize + 1)
LongValueText == Str(<<"V">>, MaxValueSize + 1)
BufferWord == Str(<<"W">>, BufferSize)

\* The keys "k00", "k01", ... of a store loaded by earlier SETs.
Digit == <<"0", "1", "2", "3", "4", "5", "6", "7", "8", "9">>
PreKey(i) == Text(<<"k", Digit[(i \div 10) + 1], Digit[(i % 10) + 1]>>)
\* The store after SETs of MaxKeyCount - 1 keys: one more key fits.
Preloaded == [k \in {PreKey(i) : i \in 0..(MaxKeyCount - 2)} |-> ValueX]

\* The paths, as their segments: the four registered with the mux,
\* main.go:351-411, one that is not, and spellings with a repeated slash of a
\* registered and of an unregistered one.
Path(segments, n) == Str(segments, n)
PathPing == Path(<<"api", "ping">>, 9)
PathStatus == Path(<<"api", "status">>, 11)
PathGet == Path(<<"api", "get">>, 8)
PathSet == Path(<<"api", "set">>, 8)
PathOther == Path(<<"api", "del">>, 8)
PathPingSlashes == Path(<<"api", "", "ping">>, 10)
PathOtherSlashes == Path(<<"api", "", "del">>, 9)
RegisteredPaths == {PathPing, PathStatus, PathGet, PathSet}

\* The path that the mux matches: cleanPath of net/http, which drops the
\* empty segments of repeated slashes (main.go:464, mux.Handler).
CleanPath(p) ==
    LET segments == SelectSeq(p.id, LAMBDA seg : seg # "")
    IN Path(segments, p.len - (Len(p.id) - Len(segments)))

\* An HTTP request: k and v are the parameters of the URL query, fk and fv
\* the fields k and v of a form in the body.
HTTPRequest(addr, method, path, k, v, fk, fv) ==
    [transport |-> "http", addr |-> addr, method |-> method, path |-> path,
     k |-> k, v |-> v, fk |-> fk, fv |-> fv, text |-> <<>>]

\* The method, path, query parameters and form fields of the HTTP requests.
Methods == {"GET", "POST", "PUT", "DELETE"}
HTTPCalls ==
    {<<m, p, EmptyText, EmptyText, EmptyText, EmptyText>> :
        m \in Methods,
        p \in {PathPing, PathStatus, PathOther, PathPingSlashes,
               PathOtherSlashes}}
      \cup {<<m, PathGet, k, EmptyText, EmptyText, EmptyText>> :
              m \in Methods, k \in {EmptyText, KeyA, KeyB}}
      \cup {<<m, PathSet, k, v, EmptyText, EmptyText>> :
              m \in Methods, k \in {EmptyText, KeyA}, v \in {EmptyText, ValueX}}
      \cup {<<m, PathSet, k, v, EmptyText, EmptyText>> :
              m \in {"POST", "PUT"}, k \in {KeyA, KeyB, LongKeyText},
              v \in {ValueX, ValueXY, LongValueText}}
      \cup {<<m, PathSet, EmptyText, EmptyText, KeyA, ValueX>> :
              m \in {"POST", "PUT"}}
      \cup {<<"POST", PathSet, KeyA, ValueHello, EmptyText, EmptyText>>}
      \cup {<<"POST", PathSet, KeyA, ValueX, KeyB, ValueXY>>,
            <<"POST", PathSet, EmptyText, EmptyText, KeyA, EmptyText>>,
            <<"POST", PathSet, KeyA, EmptyText, EmptyText, ValueX>>}

HTTPRequests ==
    {HTTPRequest(a, c[1], c[2], c[3], c[4], c[5], c[6]) :
        a \in RemoteAddrs, c \in HTTPCalls}

Datagram(addr, text) ==
    [transport |-> "udp", addr |-> addr, method |-> "", path |-> EmptyText,
     k |-> EmptyText, v |-> EmptyText, fk |-> EmptyText, fv |-> EmptyText,
     text |-> text]

\* The texts of the datagrams.
Texts ==
    {<<>>, <<Space, Tab>>,
     <<Text(<<"P", "I", "N", "G">>)>>,
     <<Text(<<"p", "i", "n", "g">>), Space>>,
     <<Text(<<"S", "t", "a", "t", "u", "s">>)>>,
     <<Text(<<"G", "E", "T">>)>>,
     <<Text(<<"G", "E", "T">>), Space, KeyA>>,
     <<Text(<<"G", "e", "t">>), Space, KeyB>>,
     <<Space, Text(<<"g", "e", "t">>), Tab, KeyB, Space, ValueX>>,
     <<Text(<<"S", "E", "T">>)>>,
     <<Text(<<"S", "E", "T">>), Space, KeyA>>,
     <<Text(<<"S", "E", "T">>), Space, KeyA, Space, ValueX>>,
     <<Text(<<"s", "e", "t">>), Space, KeyB, Space, Space, ValueX, Tab, WordY>>,
     <<Text(<<"S", "E", "T">>), Space, KeyB, Space, ValueX>>,
     <<Text(<<"S", "E", "T">>), Space, KeyA, Space, ValueHello>>,
     <<Text(<<"S", "E", "T">>), Space, LongKeyText, Space, ValueX>>,
     <<Text(<<"S", "E", "T">>), Space, KeyA, Space, ValueX, Space, BufferWord>>,
     <<Text(<<"F", "o", "o">>), Space, KeyA>>}

Datagrams == {Datagram(a, t) : a \in RemoteAddrs, t \in Texts}

RECURSIVE Take(_, _)
\* buffer[:n] after ReadFromUDP, main.go:676-682: the first n bytes of the
\* datagram, what is beyond the buffer lost
Take(t, n) ==
    IF t = <<>> \/ n = 0 THEN <<>>
    ELSE IF Head(t).len <= n
         THEN <<Head(t)>> \o Take(Tail(t), n - Head(t).len)
         ELSE <<Str(Head(t).id, n)>>

NoReq ==
    [transport |-> "none", addr |-> [ip |-> NilIP, zone |-> FALSE],
     method |-> "", path |-> EmptyText, k |-> EmptyText, v |-> EmptyText,
     fk |-> EmptyText, fv |-> EmptyText, text |-> <<>>]

\* What the server did for a request: wrote is whether it wrote to the
\* connection (a response, or a datagram to the sender), body what it wrote,
\* closed whether it closed the connection itself, dispatched whether the
\* request reached the handler of its path or command (a wrapped handler,
\* notFoundHandler, the commands of handleUDPCommand), calls the calls of
\* the store's methods that it made.
Outcome(wrote, body, closed, dispatched, calls) ==
    [wrote |-> wrote, body |-> body, closed |-> closed,
     dispatched |-> dispatched, calls |-> calls]
NoOut == Outcome(FALSE, NoBytes, FALSE, FALSE, <<>>)

\* startUDPServer before its first ReadFromUDP, main.go:673-676: nothing has
\* arrived, nothing is read, the loop is at its top.
ListenerStart ==
    /\ arrivals = <<>>
    /\ nread = 0
    /\ upc = "read"
    /\ buffer = <<>>
    /\ clientAddr = NoReq.addr
    /\ response = NoBytes
    /\ done = <<>>
    /\ errs = 0

\* A call of a method of the store, and the error of a Set.
StoreCall(op, key, value, err) ==
    [op |-> op, key |-> key, value |-> value, err |-> err]

\* What a handler did and the store it leaves.
Done(o, m) == [out |-> o, store |-> m]
\* A handler that wrote a response and called nothing.
Replied(body, m) == Done(Outcome(TRUE, body, FALSE, TRUE, <<>>), m)
----------------------------------------------------------------------------
\* NewKeyValueStore, main.go:64-68: the empty store; and the store after
\* MaxKeyCount - NumFree + 1 keys have been Set, so that the run reaches the
\* key limit.
Init ==
    /\ store \in {Loaded(0), Loaded(MaxKeyCount - NumFree + 1)}
    /\ mu = [writer |-> None, readers |-> {}]
    /\ pc = [p \in Procs |-> "idle"]
    /\ call = [p \in Procs |-> NoCall]
    /\ loc = [p \in Procs |-> NoLoc]
    /\ ret = NoRet
    /\ lastSet = [k \in SetKeys |-> Never]
    /\ lastOk = [k \in SetKeys |-> Never]
    /\ ac = [AllowedCIDR |-> NoCIDR, FirewallMode |-> "ACCEPT"]
    /\ udpMode = FALSE
    /\ req = NoReq
    /\ out = NoOut
    /\ ListenerStart

----------------------------------------------------------------------------
\* Set, main.go:80-102

\* Set with kvs.mu.Lock() placed ahead of the size checks: a call that fails
\* them has to wait for the lock too, and returns through the deferred Unlock.
SetCallLockFirst(p) ==
    /\ pc[p] = "idle"
    /\ CanLock(mu)
    /\ \E key \in SetKeys, value \in SetValues :
         LET c == [op |-> "Set", key |-> key, value |-> value]
             err == SizeCheck(key, value)
         IN IF err # Nil
            THEN /\ ret' = [Return(c, NoLoc) EXCEPT !.err = err]
                 /\ mu' = Unlock(Lock(mu, p), p)
                 /\ UNCHANGED <<pc, call>>
            ELSE /\ mu' = Lock(mu, p)
                 /\ ret' = NoRet
                 /\ call' = [call EXCEPT ![p] = c]
                 /\ pc' = [pc EXCEPT ![p] = "check"]
    /\ UNCHANGED <<store, loc, lastSet, lastOk>>
    /\ UNCHANGED srv

\* lines 80-92: the size checks, and kvs.mu.Lock() once they pass
SetCall(p) ==
    /\ pc[p] = "idle"
    /\ \E key \in SetKeys, value \in SetValues :
         LET c == [op |-> "Set", key |-> key, value |-> value]
             err == SizeCheck(key, value)
         IN IF err # Nil
            THEN /\ ret' = [Return(c, NoLoc) EXCEPT !.err = err]
                 /\ UNCHANGED <<pc, call, mu>>
            ELSE /\ CanLock(mu)
                 /\ mu' = Lock(mu, p)
                 /\ ret' = NoRet
                 /\ call' = [call EXCEPT ![p] = c]
                 /\ pc' = [pc EXCEPT ![p] = "check"]
    /\ UNCHANGED <<store, loc, lastSet, lastOk>>
    /\ UNCHANGED srv

\* SetCheck with the map write placed ahead of the key-count check.
SetCheckWriteFirst(p) ==
    /\ pc[p] = "check"
    /\ LET key == call[p].key
           exists == key \in DOMAIN store
           l == [exists |-> exists,
                 n |-> IF exists THEN 0 ELSE Cardinality(DOMAIN store),
                 totalSize |-> 0]
           err == CountCheck(store, key)
       IN /\ store' = MapAssign(store, key, call[p].value)
          /\ IF err # Nil
             THEN /\ ret' = [Return(call[p], l) EXCEPT !.err = err]
                  /\ mu' = Unlock(mu, p)
                  /\ pc' = [pc EXCEPT ![p] = "idle"]
                  /\ call' = [call EXCEPT ![p] = NoCall]
                  /\ lastSet' = [lastSet EXCEPT ![key] = call[p].value]
                  /\ UNCHANGED loc
             ELSE /\ ret' = NoRet
                  /\ loc' = [loc EXCEPT ![p] = l]
                  /\ pc' = [pc EXCEPT ![p] = "write"]
                  /\ UNCHANGED <<call, mu, lastSet>>
    /\ UNCHANGED lastOk
    /\ UNCHANGED srv

\* SetCheck returning the key-count error with the mutex still locked.
SetCheckKeepsLock(p) ==
    /\ pc[p] = "check"
    /\ LET key == call[p].key
           exists == key \in DOMAIN store
           l == [exists |-> exists,
                 n |-> IF exists THEN 0 ELSE Cardinality(DOMAIN store),
                 totalSize |-> 0]
           err == CountCheck(store, key)
       IN IF err # Nil
          THEN /\ ret' = [Return(call[p], l) EXCEPT !.err = err]
               /\ pc' = [pc EXCEPT ![p] = "idle"]
               /\ call' = [call EXCEPT ![p] = NoCall]
               /\ lastSet' = [lastSet EXCEPT ![key] = call[p].value]
               /\ UNCHANGED <<loc, mu>>
          ELSE /\ ret' = NoRet
               /\ loc' = [loc EXCEPT ![p] = l]
               /\ pc' = [pc EXCEPT ![p] = "write"]
               /\ UNCHANGED <<call, mu, lastSet>>
    /\ UNCHANGED <<store, lastOk>>
    /\ UNCHANGED srv

\* lines 95-98: the lookup and the key-count check; on error the deferred Unlock
SetCheck(p) ==
    /\ pc[p] = "check"
    /\ LET key == call[p].key
           exists == key \in DOMAIN store
           l == [exists |-> exists,
                 n |-> IF exists THEN 0 ELSE Cardinality(DOMAIN store),
                 totalSize |-> 0]
           err == CountCheck(store, key)
       IN IF err # Nil
          THEN /\ ret' = [Return(call[p], l) EXCEPT !.err = err]
               /\ mu' = Unlock(mu, p)
               /\ pc' = [pc EXCEPT ![p] = "idle"]
               /\ call' = [call EXCEPT ![p] = NoCall]
               /\ lastSet' = [lastSet EXCEPT ![key] = call[p].value]
               /\ UNCHANGED loc
          ELSE /\ ret' = NoRet
               /\ loc' = [loc EXCEPT ![p] = l]
               /\ pc' = [pc EXCEPT ![p] = "write"]
               /\ UNCHANGED <<call, mu, lastSet>>
    /\ UNCHANGED <<store, lastOk>>
    /\ UNCHANGED srv

\* lines 100-101: the map write, return nil and the deferred Unlock
SetWrite(p) ==
    /\ pc[p] = "write"
    /\ store' = MapAssign(store, call[p].key, call[p].value)
    /\ ret' = Return(call[p], loc[p])
    /\ mu' = Unlock(mu, p)
    /\ pc' = [pc EXCEPT ![p] = "idle"]
    /\ call' = [call EXCEPT ![p] = NoCall]
    /\ loc' = [loc EXCEPT ![p] = NoLoc]
    /\ lastSet' = [lastSet EXCEPT ![call[p].key] = call[p].value]
    /\ lastOk' = [lastOk EXCEPT ![call[p].key] = call[p].value]
    /\ UNCHANGED srv

----------------------------------------------------------------------------
\* Get, main.go:71-76

\* lines 71-73: kvs.mu.RLock()
GetCall(p) ==
    /\ pc[p] = "idle"
    /\ CanRLock(mu)
    /\ mu' = RLock(mu, p)
    /\ \E key \in GetKeys :
         call' = [call EXCEPT ![p] = [op |-> "Get", key |-> key, value |-> Empty]]
    /\ pc' = [pc EXCEPT ![p] = "read"]
    /\ ret' = NoRet
    /\ UNCHANGED <<store, loc, lastSet, lastOk>>
    /\ UNCHANGED srv

\* The results a map read can give: the entry, or, when the read overlaps a
\* write of the map by another goroutine (a data race), possibly a torn value.
ReadResults(p) ==
    {MapGet(store, call[p].key)}
        \cup (IF \E q \in Procs \ {p} : Writing(q)
              THEN {[value |-> Torn, found |-> TRUE]} ELSE {})

\* lines 74-75: the map read, the return and the deferred RUnlock
GetRead(p) ==
    /\ pc[p] = "read"
    /\ \E r \in ReadResults(p) :
         ret' = [Return(call[p], loc[p]) EXCEPT !.rvalue = r.value, !.found = r.found]
    /\ mu' = RUnlock(mu, p)
    /\ pc' = [pc EXCEPT ![p] = "idle"]
    /\ call' = [call EXCEPT ![p] = NoCall]
    /\ UNCHANGED <<store, loc, lastSet, lastOk>>
    /\ UNCHANGED srv

----------------------------------------------------------------------------
\* GetStatus, main.go:105-118

\* lines 105-107: kvs.mu.RLock()
StatusCall(p) ==
    /\ pc[p] = "idle"
    /\ CanRLock(mu)
    /\ mu' = RLock(mu, p)
    /\ call' = [call EXCEPT ![p] = [op |-> "GetStatus", key |-> Empty, value |-> Empty]]
    /\ pc' = [pc EXCEPT ![p] = "sum"]
    /\ ret' = NoRet
    /\ UNCHANGED <<store, loc, lastSet, lastOk>>
    /\ UNCHANGED srv

\* lines 109-112: the loop over the entries
StatusSum(p) ==
    /\ pc[p] = "sum"
    /\ loc' = [loc EXCEPT ![p].totalSize = SumSizes(store, DOMAIN store)]
    /\ pc' = [pc EXCEPT ![p] = "count"]
    /\ ret' = NoRet
    /\ UNCHANGED <<store, mu, call, lastSet, lastOk>>
    /\ UNCHANGED srv

\* lines 114-117: len(kvs.store), the return and the deferred RUnlock
StatusReturn(p) ==
    /\ pc[p] = "count"
    /\ ret' = [Return(call[p], loc[p]) EXCEPT !.KeyCount = KeyCount(store),
                                                 !.MemoryUsage = loc[p].totalSize]
    /\ mu' = RUnlock(mu, p)
    /\ pc' = [pc EXCEPT ![p] = "idle"]
    /\ call' = [call EXCEPT ![p] = NoCall]
    /\ loc' = [loc EXCEPT ![p] = NoLoc]
    /\ UNCHANGED <<store, lastSet, lastOk>>
    /\ UNCHANGED srv

----------------------------------------------------------------------------
Next ==
    \E p \in Procs :
        \/ SetCall(p)
        \/ SetCheck(p)
        \/ SetWrite(p)
        \/ GetCall(p)
        \/ GetRead(p)
        \/ StatusCall(p)
        \/ StatusSum(p)
        \/ StatusReturn(p)

Spec == Init /\ [][Next]_vars

----------------------------------------------------------------------------
\* The HTTP handlers, main.go:351-471. Each takes the request and the store
\* and gives what it did and the store it leaves.

Reply(status, message, key, value, data, m) ==
    Replied(SendJSONResponse(status, message, key, value, data), m)

MethodNotAllowed(m) ==
    Reply(405, MsgMethod, EmptyText, EmptyText, NoData, m)

\* The /api/ping handler answering without the key.
PingHandlerNoKey(r, m) ==
    IF r.method # "GET" THEN MethodNotAllowed(m)
    ELSE Reply(200, MsgPong, EmptyText, ValuePong, NoData, m)

\* /api/ping, main.go:351-363
PingHandler(r, m) ==
    IF r.method # "GET" THEN MethodNotAllowed(m)
    ELSE Reply(200, MsgPong, KeyPing, ValuePong, NoData, m)

\* The /api/status handler calling GetStatus before it looks at the method.
StatusHandlerCallFirst(r, m) ==
    Done(Outcome(TRUE,
                 IF r.method # "GET"
                 THEN SendJSONResponse(405, MsgMethod, EmptyText, EmptyText, NoData)
                 ELSE SendJSONResponse(200, MsgStatus, KeyStatus, EmptyText,
                                       StatusData(m)),
                 FALSE, TRUE,
                 <<StoreCall("GetStatus", EmptyText, EmptyText, Nil)>>),
         m)

\* /api/status, main.go:366-379
StatusHandler(r, m) ==
    IF r.method # "GET" THEN MethodNotAllowed(m)
    ELSE Done(Outcome(TRUE,
                      SendJSONResponse(200, MsgStatus, KeyStatus, EmptyText,
                                       StatusData(m)),
                      FALSE, TRUE,
                      <<StoreCall("GetStatus", EmptyText, EmptyText, Nil)>>),
              m)

\* The /api/get handler with the key looked at before the method.
GetHandlerKeyFirst(r, m) ==
    IF r.k = EmptyText
    THEN Reply(400, MsgMissingKey, EmptyText, EmptyText, NoData, m)
    ELSE IF r.method # "GET" THEN MethodNotAllowed(m)
    ELSE LET g == MapGet(m, r.k)
             c == <<StoreCall("Get", r.k, EmptyText, Nil)>>
         IN IF ~g.found
            THEN Done(Outcome(TRUE,
                              SendJSONResponse(404, MsgKeyNotFound(r.k), r.k,
                                               EmptyText, NoData),
                              FALSE, TRUE, c),
                      m)
            ELSE Done(Outcome(TRUE,
                              SendJSONResponse(200, MsgRetrieved, r.k, g.value,
                                               NoData),
                              FALSE, TRUE, c),
                      m)

\* /api/get, main.go:382-408
GetHandler(r, m) ==
    IF r.method # "GET" THEN MethodNotAllowed(m)
    ELSE IF r.k = EmptyText
    THEN Reply(400, MsgMissingKey, EmptyText, EmptyText, NoData, m)
    ELSE LET g == MapGet(m, r.k)
             c == <<StoreCall("Get", r.k, EmptyText, Nil)>>
         IN IF ~g.found
            THEN Done(Outcome(TRUE,
                              SendJSONResponse(404, MsgKeyNotFound(r.k), r.k,
                                               EmptyText, NoData),
                              FALSE, TRUE, c),
                      m)
            ELSE Done(Outcome(TRUE,
                              SendJSONResponse(200, MsgRetrieved, r.k, g.value,
                                               NoData),
                              FALSE, TRUE, c),
                      m)

\* The /api/set handler with the value looked at before the key.
SetHandlerValueFirst(r, m) ==
    IF r.method # "POST" /\ r.method # "PUT" THEN MethodNotAllowed(m)
    ELSE IF r.v = EmptyText
    THEN Reply(400, MsgMissingValue, EmptyText, EmptyText, NoData, m)
    ELSE IF r.k = EmptyText
    THEN Reply(400, MsgMissingKey, EmptyText, EmptyText, NoData, m)
    ELSE LET s == KVSet(m, r.k, r.v)
             c == <<StoreCall("Set", r.k, r.v, s.err)>>
         IN IF s.err # Nil
            THEN Done(Outcome(TRUE,
                              SendJSONResponse(400, ErrorMsg(s.err), r.k,
                                               EmptyText, NoData),
                              FALSE, TRUE, c),
                      s.store)
            ELSE Done(Outcome(TRUE,
                              SendJSONResponse(200, MsgSetOk, r.k, r.v, NoData),
                              FALSE, TRUE, c),
                      s.store)

\* The /api/set handler without the check of the value.
SetHandlerAnyValue(r, m) ==
    IF r.method # "POST" /\ r.method # "PUT" THEN MethodNotAllowed(m)
    ELSE IF r.k = EmptyText
    THEN Reply(400, MsgMissingKey, EmptyText, EmptyText, NoData, m)
    ELSE LET s == KVSet(m, r.k, r.v)
             c == <<StoreCall("Set", r.k, r.v, s.err)>>
         IN IF s.err # Nil
            THEN Done(Outcome(TRUE,
                              SendJSONResponse(400, ErrorMsg(s.err), r.k,
                                               EmptyText, NoData),
                              FALSE, TRUE, c),
                      s.store)
            ELSE Done(Outcome(TRUE,
                              SendJSONResponse(200, MsgSetOk, r.k, r.v, NoData),
                              FALSE, TRUE, c),
                      s.store)

\* /api/set, main.go:411-445
SetHandler(r, m) ==
    IF r.method # "POST" /\ r.method # "PUT" THEN MethodNotAllowed(m)
    ELSE IF r.k = EmptyText
    THEN Reply(400, MsgMissingKey, EmptyText, EmptyText, NoData, m)
    ELSE IF r.v = EmptyText
    THEN Reply(400, MsgMissingValue, EmptyText, EmptyText, NoData, m)
    ELSE LET s == KVSet(m, r.k, r.v)
             c == <<StoreCall("Set", r.k, r.v, s.err)>>
         IN IF s.err # Nil
            THEN Done(Outcome(TRUE,
                              SendJSONResponse(400, ErrorMsg(s.err), r.k,
                                               EmptyText, NoData),
                              FALSE, TRUE, c),
                      s.store)
            ELSE Done(Outcome(TRUE,
                              SendJSONResponse(200, MsgSetOk, r.k, r.v, NoData),
                              FALSE, TRUE, c),
                      s.store)

\* The handler that the mux has for a registered path.
Endpoint(r, m) ==
    CASE r.path = PathPing -> PingHandler(r, m)
      [] r.path = PathStatus -> StatusHandler(r, m)
      [] r.path = PathGet -> GetHandler(r, m)
      [] r.path = PathSet -> SetHandler(r, m)

\* The denial of accessMiddleware, main.go:185-212, by firewall mode: DROP
\* hijacks the connection and closes it, nothing written.
HTTPDenial(a, m) ==
    CASE a.FirewallMode = "DROP" ->
           Done(Outcome(FALSE, NoBytes, TRUE, FALSE, <<>>), m)
      [] a.FirewallMode = "REJECT" ->
           Done(Outcome(TRUE,
                        SendJSONResponse(403, MsgRejected, EmptyText, EmptyText,
                                         NoData),
                        FALSE, FALSE, <<>>), m)
      [] OTHER ->
           Done(Outcome(TRUE,
                        SendJSONResponse(403, MsgAccessDenied, EmptyText,
                                         EmptyText, NoData),
                        FALSE, FALSE, <<>>), m)

\* accessMiddleware running the handler before it looks at the address: a
\* denied request is answered with the denial after the handler has acted.
AccessMiddlewareHandlerFirst(a, r, m) ==
    IF Unrestricted(a) THEN Endpoint(r, m)
    ELSE LET g == GetIPFromRequest(r)
         IN IF g.err
            THEN Done(Outcome(TRUE,
                              SendJSONResponse(500, MsgParseIP, EmptyText,
                                               EmptyText, NoData),
                              FALSE, FALSE, <<>>), m)
            ELSE IF ~Contains(a.AllowedCIDR, g.ip)
            THEN HTTPDenial(a, Endpoint(r, m).store)
            ELSE Endpoint(r, m)

\* accessMiddleware around the handler of a registered path, main.go:166-217
AccessMiddleware(a, r, m) ==
    IF Unrestricted(a) THEN Endpoint(r, m)
    ELSE LET g == GetIPFromRequest(r)
         IN IF g.err
            THEN Done(Outcome(TRUE,
                              SendJSONResponse(500, MsgParseIP, EmptyText,
                                               EmptyText, NoData),
                              FALSE, FALSE, <<>>), m)
            ELSE IF ~Contains(a.AllowedCIDR, g.ip) THEN HTTPDenial(a, m)
            ELSE Endpoint(r, m)

\* notFoundHandler naming the clean form of the path.
NotFoundHandlerCleanPath(r, m) ==
    Done(Outcome(TRUE,
                 SendJSONResponse(404, MsgRoute(CleanPath(r.path)), EmptyText,
                                  EmptyText, NoData),
                 FALSE, TRUE, <<>>), m)

\* notFoundHandler, main.go:448-458
NotFoundHandler(r, m) ==
    Done(Outcome(TRUE,
                 SendJSONResponse(404, MsgRoute(r.path), EmptyText, EmptyText,
                                  NoData),
                 FALSE, TRUE, <<>>), m)

\* The handler that mux.Handler gives for a path that is not clean and whose
\* clean form is registered, main.go:464, 470: net/http's redirect to the
\* clean path, status 301, no JSON.
RedirectHandler(path, m) ==
    Done(Outcome(TRUE,
                 APIResponse(301, Msg("Moved Permanently: %s", path), EmptyText,
                             EmptyText, NoData),
                 FALSE, TRUE, <<>>), m)

\* handler, main.go:461-471: the mux's handler for the path, and
\* notFoundHandler when it has none
Handler(a, r, m) ==
    LET path == CleanPath(r.path)
    IN IF path \notin RegisteredPaths THEN NotFoundHandler(r, m)
       ELSE IF path # r.path THEN RedirectHandler(path, m)
       ELSE AccessMiddleware(a, r, m)

----------------------------------------------------------------------------
\* handleUDPCommand, main.go:480-656. It gives the bytes it returns, whether
\* the datagram reached its command, the calls of the store's methods and the
\* store it leaves.
UDPResult(bytes, dispatched, calls, m) ==
    [response |-> bytes, dispatched |-> dispatched, calls |-> calls,
     store |-> m]

\* lines 486-513
UDPDenial(a, m) ==
    CASE a.FirewallMode = "DROP" -> UDPResult(NoBytes, FALSE, <<>>, m)
      [] a.FirewallMode = "REJECT" ->
           UDPResult(APIResponse(403, MsgRejected, EmptyText, EmptyText, NoData),
                     FALSE, <<>>, m)
      [] OTHER ->
           UDPResult(APIResponse(403, MsgAccessDenied, EmptyText, EmptyText,
                                 NoData),
                     FALSE, <<>>, m)

\* A GET that takes the word after parts[1] for the key.
UDPGetNextWord(parts, m) ==
    IF Len(parts) < 3
    THEN UDPResult(APIResponse(400, MsgMissingKey, EmptyText, EmptyText, NoData),
                   TRUE, <<>>, m)
    ELSE LET key == parts[3]
             g == MapGet(m, key)
             c == <<StoreCall("Get", key, EmptyText, Nil)>>
         IN IF ~g.found
            THEN UDPResult(APIResponse(404, MsgKeyNotFound(key), key, EmptyText,
                                       NoData),
                           TRUE, c, m)
            ELSE UDPResult(APIResponse(200, MsgRetrieved, key, g.value, NoData),
                           TRUE, c, m)

\* lines 557-593
UDPGet(parts, m) ==
    IF Len(parts) < 2
    THEN UDPResult(APIResponse(400, MsgMissingKey, EmptyText, EmptyText, NoData),
                   TRUE, <<>>, m)
    ELSE LET key == parts[2]
             g == MapGet(m, key)
             c == <<StoreCall("Get", key, EmptyText, Nil)>>
         IN IF ~g.found
            THEN UDPResult(APIResponse(404, MsgKeyNotFound(key), key, EmptyText,
                                       NoData),
                           TRUE, c, m)
            ELSE UDPResult(APIResponse(200, MsgRetrieved, key, g.value, NoData),
                           TRUE, c, m)

\* The SET of handleUDPCommand taking the first word after the key as the
\* value.
UDPSetFirstWord(parts, m) ==
    IF Len(parts) < 2
    THEN UDPResult(APIResponse(400, MsgMissingKey, EmptyText, EmptyText, NoData),
                   TRUE, <<>>, m)
    ELSE IF Len(parts) < 3
    THEN UDPResult(APIResponse(400, MsgMissingValue, EmptyText, EmptyText,
                               NoData),
                   TRUE, <<>>, m)
    ELSE LET key == parts[2]
             value == parts[3]
             s == KVSet(m, key, value)
             c == <<StoreCall("Set", key, value, s.err)>>
         IN IF s.err # Nil
            THEN UDPResult(APIResponse(400, ErrorMsg(s.err), key, EmptyText,
                                       NoData),
                           TRUE, c, s.store)
            ELSE UDPResult(APIResponse(200, MsgSetOk, key, value, NoData),
                           TRUE, c, s.store)

\* lines 595-644
UDPSet(parts, m) ==
    IF Len(parts) < 2
    THEN UDPResult(APIResponse(400, MsgMissingKey, EmptyText, EmptyText, NoData),
                   TRUE, <<>>, m)
    ELSE IF Len(parts) < 3
    THEN UDPResult(APIResponse(400, MsgMissingValue, EmptyText, EmptyText,
                               NoData),
                   TRUE, <<>>, m)
    ELSE LET key == parts[2]
             value == Join(SubSeq(parts, 3, Len(parts)), Space)
             s == KVSet(m, key, value)
             c == <<StoreCall("Set", key, value, s.err)>>
         IN IF s.err # Nil
            THEN UDPResult(APIResponse(400, ErrorMsg(s.err), key, EmptyText,
                                       NoData),
                           TRUE, c, s.store)
            ELSE UDPResult(APIResponse(200, MsgSetOk, key, value, NoData),
                           TRUE, c, s.store)

\* lines 515-655: the command of a datagram that went through the access check
UDPDispatch(command, m) ==
    LET parts == Fields(command)
    IN IF Len(parts) = 0
       THEN UDPResult(APIResponse(400, MsgEmpty, EmptyText, EmptyText, NoData),
                      TRUE, <<>>, m)
       ELSE LET action == ToUpper(parts[1])
            IN CASE action = VerbPing ->
                      UDPResult(APIResponse(200, MsgPong, KeyPing, ValuePong,
                                            NoData),
                                TRUE, <<>>, m)
                 [] action = VerbStatus ->
                      UDPResult(APIResponse(200, MsgStatus, KeyStatus, EmptyText,
                                            StatusData(m)),
                                TRUE,
                                <<StoreCall("GetStatus", EmptyText, EmptyText,
                                            Nil)>>,
                                m)
                 [] action = VerbGet -> UDPGet(parts, m)
                 [] action = VerbSet -> UDPSet(parts, m)
                 [] OTHER ->
                      UDPResult(APIResponse(400, MsgUnknown(action), EmptyText,
                                            EmptyText, NoData),
                                TRUE, <<>>, m)

HandleUDPCommand(command, addr, m, a) ==
    IF ~Unrestricted(a) /\ ~Contains(a.AllowedCIDR, UDPSourceIP(addr))
    THEN UDPDenial(a, m)
    ELSE UDPDispatch(command, m)

----------------------------------------------------------------------------
\* The server.

\* The history of the successful Sets after the calls of one request.
RECURSIVE Record(_, _)
Record(h, calls) ==
    IF calls = <<>> THEN h
    ELSE LET c == Head(calls)
         IN Record(IF c.op = "Set" /\ c.err = Nil
                   THEN [k \in DOMAIN h \cup {c.key} |->
                           IF k = c.key THEN c.value ELSE h[k]]
                   ELSE h,
                   Tail(calls))

\* main, main.go:252-477: the flags parsed, the AccessControl built from
\* them, the empty store, and no request served yet; and the server after
\* SETs of MaxKeyCount - 1 keys, so that the run reaches the key limit.
ServerInit ==
    /\ \E f \in Flags :
         /\ ac = NewAccessControl(f)
         /\ udpMode = f.udp
    /\ store \in {Loaded(0), Preloaded}
    /\ lastOk = store
    /\ mu = [writer |-> None, readers |-> {}]
    /\ pc = [p \in Procs |-> "idle"]
    /\ call = [p \in Procs |-> NoCall]
    /\ loc = [p \in Procs |-> NoLoc]
    /\ ret = NoRet
    /\ lastSet = [k \in SetKeys |-> Never]
    /\ req = NoReq
    /\ out = NoOut
    /\ ListenerStart

\* The HTTP server serves one request, main.go:461-476.
ServeHTTP ==
    /\ ~udpMode
    /\ req = NoReq
    /\ \E r \in HTTPRequests :
         \E h \in {Handler(ac, r, store)} :
            /\ req' = r
            /\ out' = h.out
            /\ store' = h.store
            /\ lastOk' = Record(lastOk, h.out.calls)
    /\ UNCHANGED <<ac, udpMode>>
    /\ UNCHANGED goroutines
    /\ UNCHANGED listener

\* One turn of the loop of startUDPServer, main.go:675-693: a datagram read,
\* its text trimmed, handled, and the bytes returned written to its sender.
ServeUDP ==
    /\ udpMode
    /\ req = NoReq
    /\ \E d \in Datagrams :
         \E h \in {HandleUDPCommand(TrimSpace(Take(d.text, BufferSize)), d.addr,
                                     store, ac)} :
            /\ req' = d
            /\ out' = Outcome(TRUE, h.response, FALSE, h.dispatched, h.calls)
            /\ store' = h.store
            /\ lastOk' = Record(lastOk, h.calls)
    /\ UNCHANGED <<ac, udpMode>>
    /\ UNCHANGED goroutines
    /\ UNCHANGED listener

\* The server goes back to waiting for a request: the handler has returned,
\* main.go:470, or the loop of startUDPServer is back at ReadFromUDP,
\* main.go:675-676.
Wait ==
    /\ req # NoReq
    /\ req' = NoReq
    /\ out' = NoOut
    /\ UNCHANGED <<store, lastOk, ac, udpMode>>
    /\ UNCHANGED goroutines
    /\ UNCHANGED listener

ServerNext == ServeHTTP \/ ServeUDP \/ Wait

ServerSpec == ServerInit /\ [][ServerNext]_vars

----------------------------------------------------------------------------
\* The loop of startUDPServer, main.go:675-693, one step per call it makes.

\* The datagrams that arrive while the loop is watched: a SET and a GET of
\* the same key, each from two senders.
ListenerSenders ==
    {[ip |-> IPOf(4, 0), zone |-> FALSE], [ip |-> IPOf(4, 1), zone |-> FALSE]}
ListenerTexts ==
    {<<Text(<<"S", "E", "T">>), Space, KeyA, Space, ValueX>>,
     <<Text(<<"G", "E", "T">>), Space, KeyA>>}
ListenerDatagrams ==
    {Datagram(a, t) : a \in ListenerSenders, t \in ListenerTexts}

\* The flags the loop is watched under: no range, and a range that holds the
\* first sender only, with and without -fw-drop.
ListenerFlags ==
    {f \in Flags :
        /\ f.udp /\ ~f.fwReject /\ ~f.simulateFirewall
        /\ f.allowedCIDR \in {NoCIDRFlag, [fam |-> 4, bits |-> 0, ones |-> AddrBits]}
        /\ f.fwDrop => f.allowedCIDR # NoCIDRFlag}

\* main, main.go:252-343, with -udp: the empty store and the loop at its top.
ListenerInit ==
    /\ \E f \in ListenerFlags :
         /\ ac = NewAccessControl(f)
         /\ udpMode = f.udp
    /\ store = Loaded(0)
    /\ lastOk = store
    /\ mu = [writer |-> None, readers |-> {}]
    /\ pc = [p \in Procs |-> "idle"]
    /\ call = [p \in Procs |-> NoCall]
    /\ loc = [p \in Procs |-> NoLoc]
    /\ ret = NoRet
    /\ lastSet = [k \in SetKeys |-> Never]
    /\ req = NoReq
    /\ out = NoOut
    /\ ListenerStart

\* A datagram reaches the socket and waits there for ReadFromUDP.
Arrive ==
    /\ udpMode
    /\ Len(arrivals) < MaxDatagrams
    /\ \E d \in ListenerDatagrams : arrivals' = Append(arrivals, d)
    /\ UNCHANGED <<nread, upc, buffer, clientAddr, response, done, errs>>
    /\ UNCHANGED <<store, lastOk, ac, udpMode, req, out>>
    /\ UNCHANGED goroutines

\* A read that, like the reads of a server with one goroutine per datagram,
\* does not wait for the datagram in hand to be answered.
ReadFromUDPAnyTime ==
    /\ udpMode
    /\ nread < Len(arrivals)
    /\ LET d == arrivals[nread + 1]
       IN /\ buffer' = Take(d.text, BufferSize)
          /\ clientAddr' = d.addr
    /\ nread' = nread + 1
    /\ upc' = "handle"
    /\ UNCHANGED <<arrivals, response, done, errs>>
    /\ UNCHANGED <<store, lastOk, ac, udpMode, req, out>>
    /\ UNCHANGED goroutines

\* line 676, err == nil: the oldest datagram waiting at the socket is taken,
\* its first BufferSize bytes in the buffer and its sender in clientAddr
ReadFromUDP ==
    /\ udpMode
    /\ upc = "read"
    /\ nread < Len(arrivals)
    /\ LET d == arrivals[nread + 1]
       IN /\ buffer' = Take(d.text, BufferSize)
          /\ clientAddr' = d.addr
    /\ nread' = nread + 1
    /\ upc' = "handle"
    /\ UNCHANGED <<arrivals, response, done, errs>>
    /\ UNCHANGED <<store, lastOk, ac, udpMode, req, out>>
    /\ UNCHANGED goroutines

\* lines 676-680, err != nil: the error is logged and the loop continues
ReadError ==
    /\ udpMode
    /\ upc = "read"
    /\ errs < MaxErrs
    /\ errs' = errs + 1
    /\ UNCHANGED <<arrivals, nread, upc, buffer, clientAddr, response, done>>
    /\ UNCHANGED <<store, lastOk, ac, udpMode, req, out>>
    /\ UNCHANGED goroutines

\* lines 682-686: the command trimmed and handled
HandleCommand ==
    /\ udpMode
    /\ upc = "handle"
    /\ \E h \in {HandleUDPCommand(TrimSpace(buffer), clientAddr, store, ac)} :
         /\ response' = h.response
         /\ store' = h.store
         /\ lastOk' = Record(lastOk, h.calls)
    /\ upc' = "write"
    /\ UNCHANGED <<arrivals, nread, buffer, clientAddr, done, errs>>
    /\ UNCHANGED <<ac, udpMode, req, out>>
    /\ UNCHANGED goroutines

\* The call of WriteToUDP that the loop makes for the datagram in hand.
Written(failed) ==
    [of |-> nread, to |-> clientAddr, body |-> response, err |-> failed]

\* line 689, err == nil: the response is sent to clientAddr
WriteToUDP ==
    /\ udpMode
    /\ upc = "write"
    /\ done' = Append(done, Written(FALSE))
    /\ upc' = "read"
    /\ UNCHANGED <<arrivals, nread, buffer, clientAddr, response, errs>>
    /\ UNCHANGED <<store, lastOk, ac, udpMode, req, out>>
    /\ UNCHANGED goroutines

\* lines 689-692, err != nil: the error is logged and the loop continues
WriteError ==
    /\ udpMode
    /\ upc = "write"
    /\ errs < MaxErrs
    /\ errs' = errs + 1
    /\ done' = Append(done, Written(TRUE))
    /\ upc' = "read"
    /\ UNCHANGED <<arrivals, nread, buffer, clientAddr, response>>
    /\ UNCHANGED <<store, lastOk, ac, udpMode, req, out>>
    /\ UNCHANGED goroutines

\* The steps of the loop.
Loop == ReadFromUDP \/ ReadError \/ HandleCommand \/ WriteToUDP \/ WriteError

ListenerNext == Arrive \/ Loop

ListenerSpec == ListenerInit /\ [][ListenerNext]_vars

----------------------------------------------------------------------------
\* The calls of the store with the wait for the mutex made a state of its
\* own: a goroutine that has called Lock or RLock and has not returned from
\* it is at "lock", "drain" or "rlock". sync.RWMutex.Lock first takes the
\* mutex of the writers, which from then on keeps new readers out (mu.writer
\* is the goroutine that has it), and then waits for the readers inside to
\* leave; RLock waits while a writer has that mutex.

\* Set, lines 80-91: the size checks, and the call of kvs.mu.Lock()
SetBegin(p) ==
    /\ pc[p] = "idle"
    /\ \E key \in SetKeys, value \in SetValues :
         LET c == [op |-> "Set", key |-> key, value |-> value]
             err == SizeCheck(key, value)
         IN IF err # Nil
            THEN /\ ret' = [Return(c, NoLoc) EXCEPT !.err = err]
                 /\ UNCHANGED <<pc, call>>
            ELSE /\ ret' = NoRet
                 /\ call' = [call EXCEPT ![p] = c]
                 /\ pc' = [pc EXCEPT ![p] = "lock"]
    /\ UNCHANGED <<store, mu, loc, lastSet, lastOk>>
    /\ UNCHANGED srv

\* line 91, inside Lock: the goroutine takes the mutex of the writers
LockAnnounce(p) ==
    /\ pc[p] = "lock"
    /\ mu.writer = None
    /\ mu' = Lock(mu, p)
    /\ pc' = [pc EXCEPT ![p] = "drain"]
    /\ ret' = NoRet
    /\ UNCHANGED <<store, call, loc, lastSet, lastOk>>
    /\ UNCHANGED srv

\* line 91, Lock returns: the readers that were inside have left
LockEnter(p) ==
    /\ pc[p] = "drain"
    /\ mu.readers = {}
    /\ pc' = [pc EXCEPT ![p] = "check"]
    /\ ret' = NoRet
    /\ UNCHANGED <<store, mu, call, loc, lastSet, lastOk>>
    /\ UNCHANGED srv

\* Get, lines 71-72, and GetStatus, lines 105-106: the call of kvs.mu.RLock()
ReadBegin(p) ==
    /\ pc[p] = "idle"
    /\ \E c \in {[op |-> "Get", key |-> k, value |-> Empty] : k \in GetKeys}
                \cup {[op |-> "GetStatus", key |-> Empty, value |-> Empty]} :
         call' = [call EXCEPT ![p] = c]
    /\ pc' = [pc EXCEPT ![p] = "rlock"]
    /\ ret' = NoRet
    /\ UNCHANGED <<store, mu, loc, lastSet, lastOk>>
    /\ UNCHANGED srv

\* lines 72 and 106, RLock returns
RLockEnter(p) ==
    /\ pc[p] = "rlock"
    /\ CanRLock(mu)
    /\ mu' = RLock(mu, p)
    /\ pc' = [pc EXCEPT ![p] = IF call[p].op = "Get" THEN "read" ELSE "sum"]
    /\ ret' = NoRet
    /\ UNCHANGED <<store, call, loc, lastSet, lastOk>>
    /\ UNCHANGED srv

\* The steps of the goroutines that call the store.
Calls ==
    \E p \in Procs :
        \/ SetBegin(p)
        \/ LockAnnounce(p)
        \/ LockEnter(p)
        \/ SetCheck(p)
        \/ SetWrite(p)
        \/ ReadBegin(p)
        \/ RLockEnter(p)
        \/ GetRead(p)
        \/ StatusSum(p)
        \/ StatusReturn(p)

\* The server in either mode: the HTTP server, whose handlers call the store
\* from one goroutine per connection, or the UDP loop.
LiveInit == Init \/ ListenerInit
LiveNext == (~udpMode /\ Calls) \/ ListenerNext

\* The scheduler runs every goroutine that can run: a goroutine inside a
\* method of the store takes its next step, and the loop of startUDPServer
\* its next call. A goroutine waiting in Lock or RLock gets the mutex if it
\* is free again and again: sync.Mutex hands itself to a waiter that has
\* waited long, and Unlock of the RWMutex lets in the readers that wait.
\* Nothing is assumed of the clients: no request has to be made, no datagram
\* has to arrive.
Fairness ==
    /\ \A p \in Procs :
         /\ WF_vars(SetCheck(p))
         /\ WF_vars(SetWrite(p))
         /\ WF_vars(GetRead(p))
         /\ WF_vars(StatusSum(p))
         /\ WF_vars(StatusReturn(p))
         /\ WF_vars(LockEnter(p))
         /\ SF_vars(LockAnnounce(p))
         /\ SF_vars(RLockEnter(p))
    /\ WF_vars(ReadFromUDP)
    /\ WF_vars(HandleCommand)
    /\ WF_vars(WriteToUDP)

LiveSpec == LiveInit /\ [][LiveNext]_vars /\ Fairness

----------------------------------------------------------------------------
\* The claims.

\* Goroutine p's Set returns in this step (the size checks had passed).
SetReturns(p) == pc[p] \in {"check", "write"} /\ pc'[p] = "idle"
\* Goroutine p's Get returns in this step.
GetReturns(p) == pc[p] = "read" /\ pc'[p] = "idle"

\* C1: in every reachable state the store holds at most MaxKeyCount distinct
\* keys, whatever Get, Set and GetStatus calls the goroutines interleave.
C1_KeyCountBounded == Cardinality(DOMAIN store) <= MaxKeyCount

\* The store is full and a Set has just been refused for the key count.
C1_Witness ==
    /\ Cardinality(DOMAIN store) = MaxKeyCount
    /\ ret.op = "Set" /\ ret.err = ErrKeyCount

\* C2: every stored key is at most MaxKeySize bytes and every stored value at
\* most MaxValueSize bytes; a Set with a key of MaxKeySize + 1 bytes returns the
\* key-size error, one with a value of MaxValueSize + 1 bytes returns a size
\* error, and one with a key of exactly MaxKeySize bytes and a value of exactly
\* MaxValueSize bytes returns no size error.
C2_SizesBounded ==
    /\ \A k \in DOMAIN store :
         ByteLen(k) <= MaxKeySize /\ ByteLen(store[k]) <= MaxValueSize
    /\ ret.op = "Set" =>
         /\ ByteLen(ret.key) = MaxKeySize + 1 => ret.err = ErrKeySize
         /\ ByteLen(ret.value) = MaxValueSize + 1 => ret.err \in {ErrKeySize, ErrValueSize}
         /\ (ByteLen(ret.key) <= MaxKeySize /\ ByteLen(ret.value) = MaxValueSize + 1)
              => ret.err = ErrValueSize
         /\ (ByteLen(ret.key) = MaxKeySize /\ ByteLen(ret.value) = MaxValueSize)
              => ret.err \notin {ErrKeySize, ErrValueSize}

\* A Set of a MaxKeySize-byte key with a MaxValueSize-byte value has just
\* returned nil and the pair is in the store.
C2_Witness ==
    /\ ret.op = "Set" /\ ret.err = Nil
    /\ ByteLen(ret.key) = MaxKeySize /\ ByteLen(ret.value) = MaxValueSize
    /\ ret.key \in DOMAIN store /\ store[ret.key] = ret.value

\* C3 as stated: a Get(k) returns (v, true) whenever the last Set of k that
\* passed the size checks and returned was Set(k, v) -- whatever that Set
\* returned.
C3_Original ==
    [][\A p \in Procs :
         (GetReturns(p) /\ lastSet[call[p].key] # Never)
           => (ret'.found /\ ret'.rvalue = lastSet[call[p].key])]_vars

\* C3, amended: a Get(k) returns (v, true) whenever the last Set of k that
\* returned nil was Set(k, v), i.e. no later Set of k has succeeded.
C3_SetThenGet ==
    [][\A p \in Procs :
         (GetReturns(p) /\ lastOk[call[p].key] # Never)
           => (ret'.found /\ ret'.rvalue = lastOk[call[p].key])]_vars

\* A Get has just returned the MaxValueSize-byte value that the last Set of
\* its key, a successful one, wrote.
C3_Witness ==
    /\ ret.op = "Get" /\ ret.found
    /\ ret.rvalue = lastOk[ret.key] /\ ret.rvalue = MaxValue
    /\ lastSet[ret.key] = MaxValue

\* C4: a Set that completes while the store holds exactly MaxKeyCount keys
\* returns the key-count error and leaves the store alone when its key is not
\* in the store, and returns nil and replaces the value when its key is in
\* the store.
C4_AtCapacity ==
    [][\A p \in Procs :
         (SetReturns(p) /\ Cardinality(DOMAIN store) = MaxKeyCount)
           => IF call[p].key \in DOMAIN store
              THEN /\ ret'.err = Nil
                   /\ DOMAIN store' = DOMAIN store
                   /\ store'[call[p].key] = call[p].value
              ELSE /\ ret'.err = ErrKeyCount
                   /\ store' = store]_vars

\* The store is full, a Set has just replaced the value of a key in it, and
\* an earlier Set of a key that is still absent was refused.
C4_Witness ==
    /\ Cardinality(DOMAIN store) = MaxKeyCount
    /\ ret.op = "Set" /\ ret.err = Nil /\ ret.exists
    /\ store[ret.key] = ret.value
    /\ \E k \in FreeKeys : k \notin DOMAIN store /\ lastSet[k] # Never

\* C5: a Set that returns nil for a key already in the store leaves the set
\* of keys, and so the key count GetStatus reports, unchanged; the key's value
\* becomes the new value and every other key keeps its value.
C5_OverwriteFrame ==
    [][\A p \in Procs :
         (SetReturns(p) /\ ret'.err = Nil /\ call[p].key \in DOMAIN store)
           => /\ DOMAIN store' = DOMAIN store
              /\ KeyCount(store') = KeyCount(store)
              /\ store'[call[p].key] = call[p].value
              /\ \A k \in DOMAIN store \ {call[p].key} : store'[k] = store[k]]_vars

\* A Set has just changed the value of an existing key while another key set
\* during the run holds a different value.
C5_Witness ==
    /\ ret.op = "Set" /\ ret.err = Nil /\ ret.exists
    /\ store[ret.key] = ret.value
    /\ \E k \in FreeKeys \ {ret.key} : k \in DOMAIN store /\ store[k] # ret.value

\* C6: a Set that returns an error (key too long, value too long, or a new
\* key with the store full) leaves the store as it was: the same keys with the
\* same values, so a key that existed still has the value Get returned before.
C6_ErrorLeavesStore ==
    [][(ret'.op = "Set" /\ ret'.err # Nil)
         => /\ store' = store
            /\ lastOk' = lastOk
            /\ \A k \in FreeKeys : MapGet(store', k) = MapGet(store, k)]_vars

\* A Set of a key that is in the store has just been refused for its value's
\* size, and the key still holds the value of its last successful Set.
C6_Witness ==
    /\ ret.op = "Set" /\ ret.err = ErrValueSize
    /\ ret.key \in DOMAIN store
    /\ store[ret.key] = lastOk[ret.key]

\* C7: a Get of a key of which no Set has returned nil returns ("", false),
\* and changes neither the store nor the history of Sets.
C7_GetMissing ==
    [][\A p \in Procs :
         (GetReturns(p) /\ lastOk[call[p].key] = Never)
           => /\ ~ret'.found /\ ret'.rvalue = Empty /\ ret'.err = Nil
              /\ store' = store]_vars

\* A Get has just returned not-found for a key whose only Set was refused.
C7_Witness ==
    /\ ret.op = "Get" /\ ~ret.found
    /\ lastSet[ret.key] # Never /\ lastOk[ret.key] = Never

\* C8: of the Sets of new keys that race at the limit, the one that completes
\* while the store holds MaxKeyCount - 1 keys returns nil and brings the store
\* to MaxKeyCount keys, every one that completes while the store holds
\* MaxKeyCount keys returns the key-count error and leaves the store alone,
\* and the store never holds MaxKeyCount + 1 keys. (A goroutine blocked in
\* Lock is one whose SetCall step has not happened yet.)
C8_RaceAtLimit ==
    [][\A p \in Procs :
         (SetReturns(p) /\ call[p].key \notin DOMAIN store)
           => /\ Cardinality(DOMAIN store) = MaxKeyCount - 1
                   => (ret'.err = Nil /\ Cardinality(DOMAIN store') = MaxKeyCount)
              /\ Cardinality(DOMAIN store) = MaxKeyCount
                   => (ret'.err = ErrKeyCount /\ store' = store)
              /\ Cardinality(DOMAIN store') <= MaxKeyCount]_vars

\* The Set of a new key has just lost the race: it found MaxKeyCount keys, one
\* of them a key set during the run, and was refused.
C8_Witness ==
    /\ ret.op = "Set" /\ ret.err = ErrKeyCount /\ ~ret.exists /\ ret.n = MaxKeyCount
    /\ ret.key \notin DOMAIN store
    /\ \E k \in FreeKeys : k \in DOMAIN store
    /\ Cardinality(DOMAIN store) = MaxKeyCount

\* C9: a Get(k) returns either not-found, k being absent from the store at the
\* instant of its read, or the value that k holds at that instant, which is
\* the value written by the last Set(k, v) that returned nil; never a torn or
\* never-written value.
C9_ConsistentRead ==
    [][\A p \in Procs :
         GetReturns(p)
           => \/ /\ ~ret'.found
                 /\ call[p].key \notin DOMAIN store
                 /\ ret'.rvalue = Empty
              \/ /\ ret'.found
                 /\ call[p].key \in DOMAIN store
                 /\ ret'.rvalue = store[call[p].key]
                 /\ ret'.rvalue = lastOk[call[p].key]
                 /\ ret'.rvalue \in SetValues]_vars

\* A Get has just returned a stored value while another goroutine is still
\* inside a read section.
C9_Witness ==
    /\ ret.op = "Get" /\ ret.found /\ ret.rvalue = store[ret.key]
    /\ \E q \in Procs : pc[q] \in {"read", "sum", "count"}

\* The critical sections.
InWrite(p) == pc[p] \in {"check", "write"}
InRead(p) == pc[p] \in {"read", "sum", "count"}

\* C10: while a Set is inside its section (lookup, count check, write) no other
\* goroutine is inside a Set, Get or GetStatus section; and readers do not
\* exclude readers: while no Set is inside, every idle goroutine can enter
\* a Get or GetStatus section, whoever is reading.
C10_LockDiscipline ==
    /\ \A p \in Procs, q \in Procs :
         (p # q /\ InWrite(p)) => (~InWrite(q) /\ ~InRead(q))
    /\ (\A q \in Procs : ~InWrite(q))
         => \A p \in Procs :
              pc[p] = "idle" => (ENABLED GetCall(p) /\ ENABLED StatusCall(p))

\* Two goroutines are inside read sections at the same time.
C10_Witness ==
    \E p \in Procs, q \in Procs : p # q /\ InRead(p) /\ InRead(q)

----------------------------------------------------------------------------
\* The step on which a GetStatus returns.
StatusReturns(p) == pc[p] = "count" /\ pc'[p] = "idle"

\* The number of keys and values of m that are n bytes long.
Occurrences(m, n) ==
    Cardinality({k \in DOMAIN m : ByteLen(k) = n})
      + Cardinality({k \in DOMAIN m : ByteLen(m[k]) = n})

RECURSIVE WeightedSum(_, _)
\* The sum over the lengths ns of n times the keys and values of that length.
WeightedSum(m, ns) ==
    IF ns = {} THEN 0
    ELSE LET n == CHOOSE x \in ns : TRUE
         IN n * Occurrences(m, n) + WeightedSum(m, ns \ {n})

\* The sum over the entries of m of len(key) + len(value).
EntryBytes(m) ==
    WeightedSum(m, {ByteLen(k) : k \in DOMAIN m}
                     \cup {ByteLen(m[k]) : k \in DOMAIN m})

\* C11: the key count and the byte total that a GetStatus returns describe one
\* single state of the store, the one at its return, whatever Sets other
\* goroutines run during the call: KeyCount is its number of keys, MemoryUsage
\* the sum over its entries of len(key) + len(value), computed from the store
\* on this call; and the call leaves the store unchanged.
C11_StatusSnapshot ==
    [][\A p \in Procs :
         StatusReturns(p)
           => /\ ret'.op = "GetStatus"
              /\ ret'.KeyCount = Cardinality(DOMAIN store)
              /\ ret'.MemoryUsage = EntryBytes(store)
              /\ store' = store]_vars

\* A GetStatus has just returned the count and the byte total of a full store
\* that holds a value of the maximum size.
C11_Witness ==
    /\ ret.op = "GetStatus"
    /\ ret.KeyCount = MaxKeyCount
    /\ ret.MemoryUsage > MaxValueSize
    /\ \E k \in DOMAIN store : store[k] = MaxValue

----------------------------------------------------------------------------
\* The server has served a request and not yet gone back to waiting.
Served == req # NoReq
OnHTTP == req.transport = "http"
OnUDP == req.transport = "udp"

\* A range is configured.
Restricted == ac.AllowedCIDR # NoCIDR

\* An address lies in a range: it is of the range's family and is the
\* network address plus a host part.
InRange(n, ip) ==
    /\ ip.fam = n.fam
    /\ \E host \in 0..(2^(AddrBits - n.ones) - 1) : ip.bits = n.base + host

\* The request comes from inside, from outside the configured range.
FromInside == Restricted /\ InRange(ac.AllowedCIDR, req.addr.ip)
FromOutside == Restricted /\ ~InRange(ac.AllowedCIDR, req.addr.ip)

\* The outcome o is a response or datagram of that status.
HasStatus(o, status) == o.wrote /\ o.body # NoBytes /\ o.body.status = status

\* The outcome o is that of a request that went on to its handler or command:
\* dispatched, answered, and neither refused with 403 nor cut off.
Proceeded(o) ==
    /\ o.dispatched
    /\ o.wrote
    /\ o.body # NoBytes
    /\ o.body.status # 403
    /\ ~o.closed

\* AccessControl values without a range, of every firewall mode.
UnrestrictedModes ==
    {[AllowedCIDR |-> NoCIDR, FirewallMode |-> mode] :
        mode \in {"ACCEPT", "REJECT", "DROP", ""}}

\* C12: with no range configured every request on either transport goes on to
\* its handler or command, from every source address and whatever the
\* firewall mode: no request is answered 403, dropped or cut off. This holds
\* of the requests the server serves, and of the handlers given any
\* AccessControl without a range, from every store the server reaches.
C12_NoRangeNoDenial ==
    /\ (Served /\ ~Restricted) => Proceeded(out)
    /\ ~Served
         => \A a \in UnrestrictedModes :
              /\ \A r \in HTTPRequests : Proceeded(Handler(a, r, store).out)
              /\ \A d \in Datagrams :
                   LET h == HandleUDPCommand(TrimSpace(Take(d.text, BufferSize)),
                                             d.addr, store, a)
                   IN Proceeded(Outcome(TRUE, h.response, FALSE, h.dispatched,
                                        h.calls))

\* With no range configured, a datagram from an IPv6 address has been
\* answered 200.
C12_Witness ==
    /\ Served /\ ~Restricted /\ OnUDP
    /\ req.addr.ip.fam = 6
    /\ HasStatus(out, 200)

\* C13: with a range configured, every request whose source address, IPv4 or
\* IPv6, lies in the range goes on to its handler or command, on HTTP and on
\* UDP, under every firewall mode; it is not refused, dropped or cut off.
C13_InsideProceeds == (Served /\ FromInside) => Proceeded(out)

\* The response that carries a status and a message and nothing else.
Bare(status, message) ==
    APIResponse(status, message, EmptyText, EmptyText, NoData)

\* C14: with a range configured and firewall mode ACCEPT, a request from a
\* source address outside the range gets, on HTTP and on UDP, a response of
\* status 403 whose message is the "Access denied" one, without key, value
\* or data.
C14_AcceptDenies ==
    (Served /\ FromOutside /\ ac.FirewallMode = "ACCEPT")
      => (out.wrote /\ out.body = Bare(403, MsgAccessDenied))

\* C15: with firewall mode REJECT, a request from a source address outside
\* the range gets a response of status 403 whose message is the "rejected by
\* firewall" one, which is not the message of mode ACCEPT.
C15_RejectDenies ==
    (Served /\ FromOutside /\ ac.FirewallMode = "REJECT")
      => /\ out.wrote /\ out.body = Bare(403, MsgRejected)
         /\ MsgRejected # MsgAccessDenied

\* C16: on UDP with firewall mode DROP, no datagram at all, not even an
\* empty one, is sent back for a datagram from a source address outside the
\* range.
C16_UDPDropSendsNothing ==
    (Served /\ OnUDP /\ FromOutside /\ ac.FirewallMode = "DROP") => ~out.wrote

\* C17: on HTTP with firewall mode DROP, for a request from a source address
\* outside the range nothing is written, the handler of the path is not
\* called and the connection is closed.
C17_HTTPDropClosesSilently ==
    (Served /\ OnHTTP /\ FromOutside /\ ac.FirewallMode = "DROP")
      => (~out.wrote /\ ~out.dispatched /\ out.closed)

\* The denial of a firewall mode: the 403 of ACCEPT and of REJECT, and for
\* DROP nothing sent, the connection of an HTTP request closed.
DenialOutcome(mode, o) ==
    CASE mode = "DROP" -> ~o.wrote /\ (OnHTTP => o.closed)
      [] mode = "REJECT" -> o.wrote /\ o.body = Bare(403, MsgRejected)
      [] OTHER -> o.wrote /\ o.body = Bare(403, MsgAccessDenied)

\* C18: the access decision comes ahead of every request on both transports:
\* a request from a source address outside the range ends in the denial of
\* the firewall mode whatever it asks for, an unregistered path, a wrong
\* method, an empty text or an unknown verb included; it reaches no handler
\* or command and is never answered 400, 404 or 405.
C18_DenialFirst ==
    (Served /\ FromOutside)
      => /\ DenialOutcome(ac.FirewallMode, out)
         /\ ~out.dispatched
         /\ \A status \in {400, 404, 405} : ~HasStatus(out, status)

\* The words of a datagram as the server takes them.
Words(r) == Fields(TrimSpace(Take(r.text, BufferSize)))

\* The request is a GET with a key: GET /api/get?k=..., or a datagram whose
\* first word is GET in any case, followed by a word.
IsGet(r) ==
    \/ /\ r.transport = "http"
       /\ r.path = PathGet /\ r.method = "GET" /\ r.k # EmptyText
    \/ /\ r.transport = "udp"
       /\ Len(Words(r)) >= 2
       /\ ToUpper(Words(r)[1]) = VerbGet

\* The key that a GET asks for.
GetKey(r) == IF r.transport = "http" THEN r.k ELSE Words(r)[2]

\* The step on which the server serves a request.
Serves == ~Served /\ Served'

\* C19: a GET that goes through the access check, for a key that is in the
\* store, is answered 200 "Key retrieved successfully" with the key asked for
\* and the value that the last successful SET of the key wrote, on HTTP and
\* on UDP, and leaves the store unchanged.
C19_GetHit ==
    [][(Serves /\ IsGet(req') /\ out'.dispatched /\ GetKey(req') \in DOMAIN store)
         => /\ GetKey(req') \in DOMAIN lastOk
            /\ out'.wrote
            /\ out'.body = APIResponse(200, MsgRetrieved, GetKey(req'),
                                       lastOk[GetKey(req')], NoData)
            /\ store' = store]_vars

\* A GET over HTTP from inside the configured range has been answered with
\* the value "x y" of key b, while key a holds another value.
C19_Witness ==
    /\ Served /\ OnHTTP /\ FromInside /\ IsGet(req)
    /\ HasStatus(out, 200)
    /\ out.body.key = KeyB /\ out.body.value = ValueXY
    /\ KeyA \in DOMAIN store /\ store[KeyA] = ValueX

\* C20: a GET that goes through the access check, for a non-empty key that is
\* not in the store, is answered 404 with the message "Key '<k>' not found"
\* and the key asked for in the key field of the response, on HTTP and on UDP.
C20_GetMiss ==
    (Served /\ IsGet(req) /\ out.dispatched /\ GetKey(req) \notin DOMAIN store)
      => /\ out.wrote
         /\ out.body = APIResponse(404, MsgKeyNotFound(GetKey(req)), GetKey(req),
                                   EmptyText, NoData)

\* The request is a SET with a key and a value: POST or PUT /api/set with k
\* and v in the query, or a datagram whose first word is SET in any case,
\* followed by two words or more.
IsSet(r) ==
    \/ /\ r.transport = "http"
       /\ r.path = PathSet /\ r.method \in {"POST", "PUT"}
       /\ r.k # EmptyText /\ r.v # EmptyText
    \/ /\ r.transport = "udp"
       /\ Len(Words(r)) >= 3
       /\ ToUpper(Words(r)[1]) = VerbSet

\* The key and the value that a SET gives.
SetKey(r) == IF r.transport = "http" THEN r.k ELSE Words(r)[2]
SetValue(r) ==
    IF r.transport = "http" THEN r.v
    ELSE Join(SubSeq(Words(r), 3, Len(Words(r))), Space)

\* The error with which Set refuses the key and value of a SET in store m.
SetError(r, m) == KVSet(m, SetKey(r), SetValue(r)).err

\* C21: a SET that goes through the access check and whose Set fails (key too
\* large, value too large, store full) is answered 400 with the text of the
\* store's error as the message and the key in the key field of the response,
\* on HTTP and on UDP, and the store is unchanged.
C21_SetFailure ==
    [][(Serves /\ IsSet(req') /\ out'.dispatched /\ SetError(req', store) # Nil)
         => /\ out'.wrote
            /\ out'.body = APIResponse(400, ErrorMsg(SetError(req', store)),
                                       SetKey(req'), EmptyText, NoData)
            /\ store' = store]_vars

\* A SET over UDP with a key of MaxKeySize + 1 bytes has been answered 400 with
\* the store's error text and the key.
C21_Witness ==
    /\ Served /\ OnUDP /\ IsSet(req) /\ out.dispatched
    /\ SetKey(req) = LongKeyText
    /\ HasStatus(out, 400)
    /\ out.body.message = ErrorMsg(ErrKeySize)
    /\ out.body.key = LongKeyText

\* The server answered with a response or datagram of a status other than 200.
AnsweredError == Served /\ out.wrote /\ out.body # NoBytes /\ out.body.status # 200

AsksSet(r) ==
    \/ /\ r.transport = "http"
       /\ r.path = PathSet /\ r.method \in {"POST", "PUT"}
    \/ /\ r.transport = "udp"
       /\ Len(Words(r)) >= 1
       /\ ToUpper(Words(r)[1]) = VerbSet

\* The request carries no key: none in the query nor in a form, no word after
\* the verb.
KeyMissing(r) ==
    IF r.transport = "http" THEN r.k = EmptyText /\ r.fk = EmptyText
    ELSE Len(Words(r)) < 2

\* The request carries a key, in the query or after the verb, and no value:
\* none in the query nor in a form, no word after the key.
ValueMissing(r) ==
    IF r.transport = "http"
    THEN r.k # EmptyText /\ r.v = EmptyText /\ r.fv = EmptyText
    ELSE Len(Words(r)) = 2

\* The server answered 400 with that message and nothing else, and made no
\* call of the store.
Refused(o, message) ==
    /\ o.wrote
    /\ o.body = APIResponse(400, message, EmptyText, EmptyText, NoData)
    /\ o.calls = <<>>

\* C23: a SET that goes through the access check and carries no key is
\* answered 400 "Missing key parameter", also when it carries no value
\* either; one with a key and no value is answered 400 "Missing value
\* parameter"; on HTTP and on UDP, Set is not called and the store is unchanged.
C23_MissingParameters ==
    [][(Serves /\ AsksSet(req') /\ out'.dispatched)
         => /\ KeyMissing(req')
                => Refused(out', MsgMissingKey) /\ store' = store
            /\ ValueMissing(req')
                => Refused(out', MsgMissingValue) /\ store' = store]_vars

\* A POST /api/set with neither key nor value has been answered 400 "Missing
\* key parameter" by a server whose store holds a key.
C23_Witness ==
    /\ Served /\ OnHTTP /\ AsksSet(req) /\ out.dispatched
    /\ KeyMissing(req) /\ req.v = EmptyText /\ req.fv = EmptyText
    /\ Refused(out, MsgMissingKey)
    /\ KeyA \in DOMAIN store

\* The request asks for PING: GET /api/ping, or a datagram whose first word
\* is PING in any case.
IsPing(r) ==
    \/ /\ r.transport = "http"
       /\ r.path = PathPing /\ r.method = "GET"
    \/ /\ r.transport = "udp"
       /\ Len(Words(r)) >= 1
       /\ ToUpper(Words(r)[1]) = VerbPing

\* C24: a PING that goes through the access check is answered 200 with the
\* message "PONG", the key "ping" and the value "PONG", on HTTP and on UDP,
\* whatever the store holds, with no call of the store and the store unchanged.
C24_Ping ==
    [][(Serves /\ IsPing(req') /\ out'.dispatched)
         => /\ out'.wrote
            /\ out'.body = APIResponse(200, MsgPong, KeyPing, ValuePong, NoData)
            /\ out'.calls = <<>>
            /\ store' = store]_vars

\* A PING over UDP has been answered PONG by a server whose store is full.
C24_Witness ==
    /\ Served /\ OnUDP /\ IsPing(req) /\ out.dispatched
    /\ HasStatus(out, 200) /\ out.body.value = ValuePong
    /\ Cardinality(DOMAIN store) = MaxKeyCount

\* The request asks for STATUS: GET /api/status, or a datagram whose first
\* word is STATUS in any case.
IsStatus(r) ==
    \/ /\ r.transport = "http"
       /\ r.path = PathStatus /\ r.method = "GET"
    \/ /\ r.transport = "udp"
       /\ Len(Words(r)) >= 1
       /\ ToUpper(Words(r)[1]) = VerbStatus

\* C25: a STATUS that goes through the access check is answered 200 with the
\* message "Status retrieved successfully", the key "status" and as data the
\* snapshot of the store: its number of keys and the sum over its entries of
\* len(key) + len(value); on HTTP and on UDP, and the store is unchanged.
C25_Status ==
    [][(Serves /\ IsStatus(req') /\ out'.dispatched)
         => /\ out'.wrote
            /\ out'.body
                 = APIResponse(200, MsgStatus, KeyStatus, EmptyText,
                               [present |-> TRUE,
                                KeyCount |-> Cardinality(DOMAIN store),
                                MemoryUsage |-> EntryBytes(store)])
            /\ store' = store]_vars

\* A STATUS over HTTP has been answered with the two keys and the six bytes
\* of a store that holds a = "x" and b = "x y".
C25_Witness ==
    /\ Served /\ OnHTTP /\ IsStatus(req) /\ out.dispatched
    /\ HasStatus(out, 200)
    /\ DOMAIN store = {KeyA, KeyB}
    /\ store[KeyA] = ValueX /\ store[KeyB] = ValueXY
    /\ out.body.data.KeyCount = 2 /\ out.body.data.MemoryUsage = 6

\* The small letter of each capital letter of the datagrams.
SmallOf ==
    [c \in {"A", "B", "E", "F", "G", "I", "N", "O", "P", "S", "T", "U"} |->
       CASE c = "A" -> "a" [] c = "B" -> "b" [] c = "E" -> "e"
         [] c = "F" -> "f" [] c = "G" -> "g" [] c = "I" -> "i"
         [] c = "N" -> "n" [] c = "O" -> "o" [] c = "P" -> "p"
         [] c = "S" -> "s" [] c = "T" -> "t" [] c = "U" -> "u"]

\* The word w spells the verb, each letter capital or small.
Spells(w, verb) ==
    /\ Len(w.id) = Len(verb.id)
    /\ \A i \in 1..Len(w.id) : w.id[i] \in {verb.id[i], SmallOf[verb.id[i]]}

\* The word w with its small letters made capital.
Capitals(w) ==
    Str([i \in 1..Len(w.id) |->
           IF \E c \in DOMAIN SmallOf : SmallOf[c] = w.id[i]
           THEN CHOOSE c \in DOMAIN SmallOf : SmallOf[c] = w.id[i]
           ELSE w.id[i]],
        w.len)

Verbs == {VerbPing, VerbStatus, VerbGet, VerbSet}

\* The command of the words with the verb in capitals as its first word, the
\* words one space apart.
Spelled(verb, words) ==
    [i \in 1..(2 * Len(words) - 1) |->
       IF i = 1 THEN verb
       ELSE IF i % 2 = 0 THEN Space
       ELSE words[(i + 1) \div 2]]

\* C26: of a datagram that goes through the access check, a first word that
\* spells PING, STATUS, GET or SET in any mix of capital and small letters
\* selects the operation that the verb in capitals selects: the answer and
\* the store are those of the same words after the verb in capitals. A first
\* word that spells none of them is answered 400 "Unknown command: <VERB>"
\* with the word in capitals, a datagram that is empty or only white space is
\* answered 400 "Empty command", and in these two cases the store is
\* unchanged and not called.
C26_Verbs ==
    [][(Serves /\ req'.transport = "udp" /\ out'.dispatched)
         => LET words == Words(req')
            IN /\ words = <<>>
                    => Refused(out', MsgEmpty) /\ store' = store
               /\ (words # <<>> /\ \A verb \in Verbs : ~Spells(words[1], verb))
                    => /\ Refused(out', MsgUnknown(Capitals(words[1])))
                       /\ store' = store
               /\ \A verb \in Verbs :
                    (words # <<>> /\ Spells(words[1], verb))
                      => LET h == UDPDispatch(Spelled(verb, words), store)
                         IN /\ out'.wrote
                            /\ out'.body = h.response
                            /\ store' = h.store]_vars

\* The datagram "Foo a" has been answered 400 "Unknown command: FOO" by a
\* server whose store holds a key.
C26_Witness ==
    /\ Served /\ OnUDP /\ out.dispatched
    /\ Words(req) # <<>> /\ Words(req)[1] = Text(<<"F", "o", "o">>)
    /\ Refused(out, MsgUnknown(Text(<<"F", "O", "O">>)))
    /\ KeyA \in DOMAIN store

\* The words of a datagram as its sender wrote them.
SentWords(r) == Fields(TrimSpace(r.text))

\* The datagram fits the buffer that the server reads it into.
WholeDatagram(r) == Take(r.text, BufferSize) = r.text

\* The words after the key of a SET datagram as sent are in store m under the
\* key, joined by single spaces, and a GET of the key is answered with them.
StoredJoined(r, m) ==
    LET key == SentWords(r)[2]
        value == Join(SubSeq(SentWords(r), 3, Len(SentWords(r))), Space)
    IN /\ key \in DOMAIN m
       /\ m[key] = value
       /\ UDPGet(<<VerbGet, key>>, m).response
            = APIResponse(200, MsgRetrieved, key, value, NoData)

\* The step serves a datagram that was sent as SET <key> <t1> ... <tn>,
\* n >= 1, and went through the access check.
ServesSetDatagram ==
    /\ Serves /\ req'.transport = "udp" /\ out'.dispatched
    /\ Len(SentWords(req')) >= 3
    /\ Spells(SentWords(req')[1], VerbSet)

\* The statement of C27 as the specification has it: every such datagram
\* stores under the key the words after the key joined by single spaces, and a
\* GET of the key that follows is answered with that value.
C27_Original == [][ServesSetDatagram => StoredJoined(req', store')]_vars

\* C27: a datagram SET <key> <t1> ... <tn>, n >= 1, that goes through the
\* access check, fits the server's buffer of BufferSize bytes and whose Set
\* returns no error stores under the key the words after the key joined by
\* single spaces, whatever white space separated them, and a GET of the key
\* that follows is answered with that value.
C27_SetJoinsWords ==
    [][(ServesSetDatagram /\ WholeDatagram(req') /\ SetError(req', store) = Nil)
         => StoredJoined(req', store')]_vars

\* The datagram "set b  x<TAB>y" has been answered 200 and the store holds
\* "x y" under b.
C27_Witness ==
    /\ Served /\ OnUDP /\ out.dispatched /\ WholeDatagram(req)
    /\ Len(SentWords(req)) = 4 /\ SentWords(req)[2] = KeyB
    /\ HasStatus(out, 200)
    /\ KeyB \in DOMAIN store /\ store[KeyB] = ValueXY

\* The method of the request is not one that the endpoint of its path takes:
\* GET for /api/ping, /api/status and /api/get, POST or PUT for /api/set.
WrongMethod(r) ==
    IF r.path = PathSet THEN r.method \notin {"POST", "PUT"}
    ELSE r.method # "GET"

\* C28: an HTTP request to /api/ping, /api/status, /api/get or /api/set that
\* goes through the access check with a method that the endpoint does not
\* take is answered 405, whether or not it carries the endpoint's
\* parameters, with no call of the store and the store unchanged.
C28_MethodNotAllowed ==
    [][(Serves /\ req'.transport = "http" /\ out'.dispatched
          /\ req'.path \in RegisteredPaths /\ WrongMethod(req'))
         => /\ HasStatus(out', 405)
            /\ out'.calls = <<>>
            /\ store' = store]_vars

\* A DELETE /api/set without key and value has been answered 405.
C28_Witness ==
    /\ Served /\ OnHTTP /\ out.dispatched
    /\ req.path = PathSet /\ req.method = "DELETE"
    /\ req.k = EmptyText /\ req.v = EmptyText
    /\ HasStatus(out, 405)

\* The server answered 404 "Route '<path>' not found" with the path of the
\* request, and made no call of the store.
RouteNotFound(r, o) ==
    /\ o.wrote
    /\ o.body = APIResponse(404, MsgRoute(r.path), EmptyText, EmptyText, NoData)
    /\ o.calls = <<>>

FormOnly(r) ==
    /\ r.k = EmptyText /\ r.v = EmptyText
    /\ r.fk # EmptyText /\ r.fv # EmptyText

\* C30: a POST or PUT /api/set that goes through the access check and carries
\* k and v as form fields only, with a key and a value that Set accepts, is
\* answered 200 "Key set successfully" with the key and the value, and the
\* store holds the value under the key.
C30_SetFromForm ==
    [][(Serves /\ req'.transport = "http" /\ out'.dispatched
          /\ req'.path = PathSet /\ req'.method \in {"POST", "PUT"}
          /\ FormOnly(req')
          /\ KVSet(store, req'.fk, req'.fv).err = Nil)
         => /\ out'.wrote
            /\ out'.body = APIResponse(200, MsgSetOk, req'.fk, req'.fv, NoData)
            /\ req'.fk \in DOMAIN store'
            /\ store'[req'.fk] = req'.fv]_vars

\* A POST /api/set with k = a and v = x as form fields only has been answered
\* 400 "Missing key parameter".
C30_Witness ==
    /\ Served /\ OnHTTP /\ out.dispatched
    /\ req.path = PathSet /\ req.method = "POST"
    /\ FormOnly(req)
    /\ Refused(out, MsgMissingKey)

\* The store that holds "hello" under a and nothing else.
StoreAHello == [k \in {KeyA} |-> ValueHello]

\* C31: from the empty store, on HTTP and on UDP, SET a hello is answered 200
\* with key "a" and value "hello" and leaves the store holding that entry
\* alone; with the store so, GET a is answered 200 with key "a" and value
\* "hello", GET b is answered 404 with key "b", both leaving the store as it
\* is, and STATUS is answered 200 with the data key_count 1 and
\* memory_usage_bytes 6.
C31_Scenario ==
    [][(Serves /\ out'.dispatched)
         => /\ (DOMAIN store = {} /\ IsSet(req')
                  /\ SetKey(req') = KeyA /\ SetValue(req') = ValueHello)
                 => /\ HasStatus(out', 200)
                    /\ out'.body.key = KeyA /\ out'.body.value = ValueHello
                    /\ store' = StoreAHello
            /\ (store = StoreAHello /\ IsGet(req') /\ GetKey(req') = KeyA)
                 => /\ HasStatus(out', 200)
                    /\ out'.body.key = KeyA /\ out'.body.value = ValueHello
                    /\ store' = store
            /\ (store = StoreAHello /\ IsGet(req') /\ GetKey(req') = KeyB)
                 => /\ HasStatus(out', 404)
                    /\ out'.body.key = KeyB
                    /\ store' = store
            /\ (store = StoreAHello /\ IsStatus(req'))
                 => /\ HasStatus(out', 200)
                    /\ out'.body.data
                         = [present |-> TRUE, KeyCount |-> 1, MemoryUsage |-> 6]
                    /\ store' = store]_vars

\* With a = "hello" alone in the store, a GET b over UDP has been answered 404
\* with the key b.
C31_Witness ==
    /\ Served /\ OnUDP /\ out.dispatched
    /\ store = StoreAHello
    /\ IsGet(req) /\ GetKey(req) = KeyB
    /\ HasStatus(out, 404) /\ out.body.key = KeyB

\* The words of a key and of a value as a datagram carries them: none for the
\* empty string, the two words of "x y".
WordsOf(t) ==
    IF t = EmptyText THEN <<>>
    ELSE IF t = ValueXY THEN <<ValueX, WordY>>
    ELSE <<t>>

\* The same verb and arguments as an HTTP request and as the command of a
\* datagram: the request to the verb's endpoint with its method, k and v in
\* the query; the verb followed by the words of the key and of the value.
SameOnHTTP(verb, k, v) ==
    HTTPRequest([ip |-> IPOf(4, 0), zone |-> FALSE],
                IF verb = VerbSet THEN "POST" ELSE "GET",
                CASE verb = VerbPing -> PathPing
                  [] verb = VerbStatus -> PathStatus
                  [] verb = VerbGet -> PathGet
                  [] verb = VerbSet -> PathSet,
                k, v, EmptyText, EmptyText)
SameOnUDP(verb, k, v) == Spelled(verb, <<verb>> \o WordsOf(k) \o WordsOf(v))

\* The verbs with the arguments they take: PING and STATUS none, GET a key or
\* none, SET a key and a value, a key alone, or none.
Commands ==
    {<<VerbPing, EmptyText, EmptyText>>, <<VerbStatus, EmptyText, EmptyText>>}
      \cup {<<VerbGet, k, EmptyText>> : k \in {EmptyText, KeyA, KeyB}}
      \cup {<<VerbSet, k, v>> :
              k \in {KeyA, KeyB, LongKeyText},
              v \in {EmptyText, ValueX, ValueXY, ValueHello}}
      \cup {<<VerbSet, EmptyText, EmptyText>>}

\* C32: for every store the server reaches and every verb with its arguments
\* (PING, STATUS, GET k, SET k v, the arguments present or missing, the key
\* stored or not, Set failing or not), the handler of the HTTP endpoint and
\* the command of handleUDPCommand give the same status, message, key, value
\* and data, and leave the same store.
C32_TransportsAgree ==
    ~Served
      => \A c \in Commands :
           LET h == Endpoint(SameOnHTTP(c[1], c[2], c[3]), store)
               u == UDPDispatch(SameOnUDP(c[1], c[2], c[3]), store)
           IN /\ h.out.body = u.response
              /\ h.store = u.store

\* The calls of the store's methods of an outcome are the one call of op.
OneCall(o, op) == Len(o.calls) = 1 /\ o.calls[1].op = op

\* C34: every request, on HTTP and on UDP, makes at most one call of the
\* store: a GET with a key that goes through the access check makes exactly
\* one Get, a SET with a key and a value exactly one Set, a STATUS exactly one
\* GetStatus, and every other request (PING, a request denied or cut off, one
\* with a wrong method or a missing argument, an unknown route or command)
\* makes none.
C34_OneStoreCall ==
    Served
      => /\ Len(out.calls) <= 1
         /\ CASE out.dispatched /\ IsGet(req) ->
                   /\ OneCall(out, "Get")
                   /\ out.calls[1].key = GetKey(req)
              [] out.dispatched /\ IsSet(req) ->
                   /\ OneCall(out, "Set")
                   /\ out.calls[1].key = SetKey(req)
                   /\ out.calls[1].value = SetValue(req)
              [] out.dispatched /\ IsStatus(req) -> OneCall(out, "GetStatus")
              [] OTHER -> out.calls = <<>>

\* A SET over UDP on the full store has made its one call of Set, which
\* returned the key-count error.
C34_Witness ==
    /\ Served /\ OnUDP /\ out.dispatched /\ IsSet(req)
    /\ OneCall(out, "Set")
    /\ out.calls[1].err = ErrKeyCount

\* The outcome o is a denial by access control: the request reached no
\* handler or command and was answered 403, or nothing of a response was
\* written for it (the drop).
WasDenied(o) ==
    /\ ~o.dispatched
    /\ HasStatus(o, 403) \/ o.body = NoBytes

\* C37: a request denied by access control, answered 403 or dropped, on HTTP
\* or on UDP, makes no call of the store and leaves the store as it was, and
\* what is sent back carries no key, no value and no data.
C37_DenialTouchesNothing ==
    [][(Serves /\ WasDenied(out'))
         => /\ store' = store
            /\ out'.calls = <<>>
            /\ out'.body.key = EmptyText
            /\ out'.body.value = EmptyText
            /\ out'.body.data = NoData]_vars

\* A SET of a new key over HTTP from outside the range has been answered 403
\* and the store, which holds another key, does not hold the key.
C37_Witness ==
    /\ Served /\ OnHTTP /\ FromOutside /\ IsSet(req)
    /\ WasDenied(out) /\ HasStatus(out, 403)
    /\ KeyA \in DOMAIN store
    /\ SetKey(req) \notin DOMAIN store

\* The string holds no white space character.
NoWhitespace(t) ==
    \A i \in 1..Len(t.id) : t.id[i] \notin {" ", "\t"}

\* The SET that the server takes from the request has no key or no value:
\* k or v is not in the query, or the datagram has fewer than three words.
LacksArgument(r) ==
    IF r.transport = "http" THEN r.k = EmptyText \/ r.v = EmptyText
    ELSE Len(Words(r)) < 3

\* C40: after any sequence of requests on either transport every entry of the
\* store has a non-empty key and a non-empty value; a SET without a key or
\* without a value is answered 400 with no call of Set; a GET answered 200
\* carries a non-empty value; and every key that a datagram has Set holds no
\* white space.
C40_NoEmptyEntries ==
    /\ \A k \in DOMAIN store : k # EmptyText /\ store[k] # EmptyText
    /\ (Served /\ out.dispatched /\ AsksSet(req) /\ LacksArgument(req))
         => HasStatus(out, 400) /\ out.calls = <<>>
    /\ (Served /\ IsGet(req) /\ HasStatus(out, 200))
         => out.body.value # EmptyText
    /\ (Served /\ OnUDP)
         => \A i \in 1..Len(out.calls) :
              out.calls[i].op = "Set"
                => /\ out.calls[i].key # EmptyText
                   /\ NoWhitespace(out.calls[i].key)

\* The datagram "set b  x<TAB>y", with white space on both sides of its key,
\* has stored "x y" under the key b.
C40_Witness ==
    /\ Served /\ OnUDP /\ out.dispatched
    /\ Len(req.text) > 4 /\ req.text[2] = Space /\ req.text[4] = Space
    /\ OneCall(out, "Set") /\ out.calls[1].err = Nil
    /\ out.calls[1].key = KeyB
    /\ KeyB \in DOMAIN store /\ store[KeyB] = ValueXY

----------------------------------------------------------------------------
\* The arguments of the Set that has just returned.
KeyTooLong == ByteLen(ret.key) > MaxKeySize
ValueTooLong == ByteLen(ret.value) > MaxValueSize
\* The Set that has just returned would have added a key to a full store.
NewKeyOnFullStore ==
    ret.key \notin DOMAIN store /\ Cardinality(DOMAIN store) >= MaxKeyCount

\* C39: Set reports only the first violated of its checks, in the order key
\* size, value size, capacity: a Set with an oversize key returns the key-size
\* error also when its value is oversize; a Set with a key within the limit
\* and an oversize value returns the value-size error also when its key is
\* new and the store is full; the key-count error is returned only when both
\* sizes are within their limits.
C39_FirstViolation ==
    ret.op = "Set" =>
        /\ KeyTooLong => ret.err = ErrKeySize
        /\ (KeyTooLong /\ ValueTooLong) => ret.err = ErrKeySize
        /\ (~KeyTooLong /\ ValueTooLong) => ret.err = ErrValueSize
        /\ (~KeyTooLong /\ ValueTooLong /\ NewKeyOnFullStore)
             => ret.err = ErrValueSize
        /\ ret.err = ErrKeyCount => (~KeyTooLong /\ ~ValueTooLong)

\* A Set of a new key with an oversize value has just returned the value-size
\* error from a full store.
C39_Witness ==
    /\ ret.op = "Set" /\ ret.err = ErrValueSize
    /\ ~KeyTooLong /\ ValueTooLong /\ NewKeyOnFullStore

----------------------------------------------------------------------------
SizeErrors == {ErrKeySize, ErrValueSize}

\* Goroutine p calls Set with an oversize key or value and the call returns.
SetFailsSize(p) == SetCall(p) /\ ret'.err \in SizeErrors

\* C36: a Set with an oversize key or value returns its error without taking
\* the write lock: the step on which it returns leaves the mutex and every
\* goroutine's position as they were, so it blocks nobody; and it is blocked
\* by nobody: an idle goroutine can make such a call and have it return
\* whoever holds the mutex, for writing or for reading.
C36_SizeErrorTakesNoLock ==
    /\ [](\A p \in Procs : pc[p] = "idle" => ENABLED SetFailsSize(p))
    /\ [][(ret'.op = "Set" /\ ret'.err \in SizeErrors)
            => (mu' = mu /\ pc' = pc /\ call' = call)]_vars

\* A Set has just returned a size error while another goroutine holds the
\* mutex for writing, inside its own Set.
C36_Witness ==
    /\ ret.op = "Set" /\ ret.err \in SizeErrors
    /\ mu.writer # None
    /\ \E q \in Procs : InWrite(q) /\ mu.writer = q

----------------------------------------------------------------------------
\* C38: the store has no removal. No step takes a key out of the store, so
\* the set of keys only grows and the number of keys never decreases; a Get
\* of a key returns found once a Set of the key has returned nil; the key
\* count a GetStatus reports is the number of keys at its return, which is at
\* least the number at any earlier step and so at least the count any earlier
\* GetStatus reported; and once the store holds MaxKeyCount keys no step adds
\* a key.
C38_NoRemoval ==
    /\ [][/\ DOMAIN store \subseteq DOMAIN store'
          /\ KeyCount(store) <= KeyCount(store')]_vars
    /\ [][KeyCount(store) >= MaxKeyCount => DOMAIN store' = DOMAIN store]_vars
    /\ [][\A p \in Procs :
            StatusReturns(p)
              => /\ ret'.KeyCount = KeyCount(store')
                 /\ ret'.KeyCount >= KeyCount(store)
                 /\ ret.op = "GetStatus" => ret'.KeyCount >= ret.KeyCount]_vars
    /\ []((ret.op = "Get" /\ lastOk[ret.key] # Never) => ret.found)

\* GetStatus has just reported MaxKeyCount keys, one of them Set during the
\* run, after a Set of a key that is still absent was refused.
C38_Witness ==
    /\ ret.op = "GetStatus" /\ ret.KeyCount = MaxKeyCount
    /\ \E k \in FreeKeys : lastOk[k] # Never /\ k \in DOMAIN store
    /\ \E k \in FreeKeys : lastSet[k] # Never /\ k \notin DOMAIN store

----------------------------------------------------------------------------
\* The datagrams that ReadFromUDP has returned and that no call of WriteToUDP
\* has been made for yet.
InFlight == nread - Len(done)

\* C33: the UDP loop handles the datagrams one at a time, in the order they
\* arrived. At most one datagram is in flight, and one is exactly while the
\* loop is between ReadFromUDP and the return of WriteToUDP; the i-th call of
\* WriteToUDP is made for the i-th datagram that arrived and to that
\* datagram's sender, with the response in hand; and a datagram is read only
\* at the top of the loop, one at a time, when the call of WriteToUDP for
\* every datagram read before has been made.
C33_OneAtATime ==
    /\ [](InFlight \in {0, 1})
    /\ [](InFlight = 1 <=> upc # "read")
    /\ [](\A i \in 1..Len(done) :
            /\ done[i].of = i
            /\ done[i].to = arrivals[i].addr)
    /\ [][nread' # nread
            => /\ nread' = nread + 1
               /\ upc = "read"
               /\ Len(done) = nread
               /\ clientAddr' = arrivals[nread'].addr]_vars
    /\ [][done' # done
            => /\ upc = "write"
               /\ Len(done') = Len(done) + 1
               /\ done'[Len(done')].to = clientAddr
               /\ done'[Len(done')].body = response
               /\ SubSeq(done', 1, Len(done)) = done]_vars

\* Two datagrams of different senders have been answered, each to its own
\* sender, the second with what the first had stored, while a third waits at
\* the socket.
C33_Witness ==
    /\ Len(done) = 2 /\ nread = 2 /\ Len(arrivals) = 3
    /\ done[1].to # done[2].to
    /\ ~done[1].err /\ ~done[2].err
    /\ done[2].body.status = 200 /\ done[2].body.value = ValueX
    /\ arrivals[2].text = <<Text(<<"G", "E", "T">>), Space, KeyA>>

----------------------------------------------------------------------------
\* A goroutine is inside a call of the store, waiting for the mutex or
\* holding it.
InCall(p) == pc[p] # "idle"

\* The mutex is held by the goroutines at the positions that hold it, and by
\* nobody else.
HeldAsPlaced ==
    /\ \A p \in Procs :
         /\ mu.writer = p <=> pc[p] \in {"drain", "check", "write"}
         /\ p \in mu.readers <=> pc[p] \in {"read", "sum", "count"}
    /\ mu.writer \in Procs \cup {None}
    /\ mu.readers \subseteq Procs

\* The bytes of a call of WriteToUDP are a response with a status, or they
\* are none and the datagram was denied under -fw-drop.
Structured(w) ==
    \/ w.body.status \in {200, 400, 403, 404}
    \/ /\ w.body = NoBytes
       /\ ac.FirewallMode = "DROP"
       /\ ~Unrestricted(ac)
       /\ ~Contains(ac.AllowedCIDR, UDPSourceIP(w.to))

\* C35: every request reaches its outcome and the server keeps serving. A
\* goroutine that has called Get, Set or GetStatus returns from it: whenever
\* it is inside a call it is outside again later. The mutex is held only by
\* goroutines inside a method, so every return, the one with the key-count
\* error included, has released it. Every datagram that has arrived is read
\* and its call of WriteToUDP made (the i-th datagram, once arrived, has its
\* call made later), with a structured response unless the datagram is
\* dropped; and the UDP loop comes back to ReadFromUDP after every outcome,
\* errors of reading and writing included.
C35_Progress ==
    /\ []HeldAsPlaced
    /\ [](\A i \in 1..Len(done) : Structured(done[i]))
    /\ \A p \in Procs : []<>(~InCall(p))
    /\ \A i \in 1..MaxDatagrams : []<>(Len(arrivals) >= i => Len(done) >= i)
    /\ []<>(upc = "read")

\* A Set has just returned the key-count error, the mutex is free again and
\* the other goroutine, which waited for it, is still to enter.
C35_Witness ==
    /\ ret.op = "Set" /\ ret.err = ErrKeyCount
    /\ mu.writer = None
    /\ \E q \in Procs : pc[q] \in {"lock", "rlock"}

====
